---- MODULE Spec2Model ----
(***************************************************************************)
(* Threshold optimisation and Monte Carlo significance testing of          *)
(* quantKit / pyQuantTools: opt_thresh, generate_threshold_table,          *)
(* opt_MCPT, generate_threshold_report, bcp and u_test.                    *)
(*                                                                         *)
(* Numbers.  The inputs are small integers, which IEEE doubles hold        *)
(* exactly, as they hold their sums.  A profit factor win/(loss + 1e-30)   *)
(* is kept as the reduced fraction [num, den]; den = 0 stands for a loss   *)
(* sum of exactly zero, where the double is win/1e-30 = win*1e30 (the      *)
(* 1e-30 is absorbed by any loss sum >= 1).  Two such doubles compare as   *)
(* the fractions do.                                                       *)
(***************************************************************************)
EXTENDS Integers, Sequences, FiniteSets, TLC

VARIABLES op, args, ret, work,
          pc, signal_loc, work_permute, irep,
          long_count, short_count, best_count, base,
          fi, ti, header_printed, printed,
          tasks, results, locals

vars == <<op, args, ret, work, pc, signal_loc, work_permute, irep,
          long_count, short_count, best_count, base,
          fi, ti, header_printed, printed,
          tasks, results, locals>>

(* ------------------------------ bounds --------------------------------- *)
\* longest series a caller passes
MaxN == 3

OutcomeVals == {-1, 0, 1, 2}
SignalVals == {1, 2, 3}
Percents == {-1, 0, 34, 67, 100, 101}

SeqsUpTo(S, n) == UNION {[1..k -> S] : k \in 0..n}

GoldenPredictor == <<1, 2, 3, 4, 5>>
GoldenOutcome == <<1, -1, 1, -1, 1>>

Predictors == SeqsUpTo(SignalVals, MaxN) \cup {GoldenPredictor}
Outcomes == SeqsUpTo(OutcomeVals, MaxN) \cup {GoldenOutcome}

(* ----------------------------- arithmetic ------------------------------ *)
Abs(x) == IF x < 0 THEN -x ELSE x
Max2(a, b) == IF a >= b THEN a ELSE b

RECURSIVE GCD(_, _)
GCD(a, b) == IF b = 0 THEN a ELSE GCD(b, a % b)

\* win / (loss + 1e-30) as a double, for integer win >= 0 and loss >= 0
PF(win, loss) ==
    IF loss = 0 THEN [num |-> win, den |-> 0]
    ELSE LET g == GCD(win, loss) IN [num |-> win \div g, den |-> loss \div g]

\* the double -1.0 that seeds the short side
MinusOne == [num |-> -1, den |-> 1]

\* a > b on the doubles
PFGt(a, b) ==
    CASE a.den = 0 /\ b.den = 0 -> a.num > b.num
      [] a.den = 0 /\ b.den > 0 -> IF a.num > 0 THEN TRUE ELSE 0 > b.num
      [] a.den > 0 /\ b.den = 0 -> IF b.num > 0 THEN FALSE ELSE a.num > 0
      [] OTHER -> a.num * b.den > b.num * a.den

PFEq(a, b) == ~PFGt(a, b) /\ ~PFGt(b, a)
PFGe(a, b) == ~PFGt(b, a)

\* report convention: a value above 1e20 is printed as infinite
Infinite(a) == a.den = 0 /\ a.num > 0

RECURSIVE SumWin(_, _)
SumWin(r, k) == IF k = 0 THEN 0
                ELSE SumWin(r, k - 1) + (IF r[k] > 0 THEN r[k] ELSE 0)

RECURSIVE SumLose(_, _)
SumLose(r, k) == IF k = 0 THEN 0
                 ELSE SumLose(r, k - 1) + (IF r[k] > 0 THEN 0 ELSE -r[k])

\* sums of the gains and of the absolute non-gains over the indices in S
RECURSIVE WinOver(_, _)
WinOver(r, S) ==
    IF S = {} THEN 0
    ELSE LET j == CHOOSE x \in S : TRUE
         IN (IF r[j] > 0 THEN r[j] ELSE 0) + WinOver(r, S \ {j})

RECURSIVE LoseOver(_, _)
LoseOver(r, S) ==
    IF S = {} THEN 0
    ELSE LET j == CHOOSE x \in S : TRUE
         IN (IF r[j] > 0 THEN 0 ELSE -r[j]) + LoseOver(r, S \ {j})

\* the same two sums over the positions lo..hi
RECURSIVE RangeWin(_, _, _)
RangeWin(r, lo, hi) == IF lo > hi THEN 0
                       ELSE (IF r[lo] > 0 THEN r[lo] ELSE 0) + RangeWin(r, lo + 1, hi)

RECURSIVE RangeLose(_, _, _)
RangeLose(r, lo, hi) == IF lo > hi THEN 0
                        ELSE (IF r[lo] > 0 THEN 0 ELSE -r[lo]) + RangeLose(r, lo + 1, hi)

(* ------------------------------- argsort ------------------------------- *)
\* np.argsort: some permutation of the indices that puts x in ascending
\* order; the order inside a block of equal values is not specified.
RECURSIVE ArgSortsFrom(_, _)
ArgSortsFrom(x, S) ==
    IF S = {} THEN {<<>>}
    ELSE LET least == {j \in S : \A i \in S : x[j] <= x[i]}
         IN UNION {{<<j>> \o rest : rest \in ArgSortsFrom(x, S \ {j})} : j \in least}

ArgSorts(x) == ArgSortsFrom(x, 1..Len(x))

Gather(x, p) == [i \in 1..Len(p) |-> x[p[i]]]

\* x[indices] and r[indices] for every order np.argsort(x) may return: the
\* pairs <<work_signal, work_return>> a call may go on with
SortedViews(x, r) ==
    IF Len(r) < Len(x) THEN {}
    ELSE {<<Gather(x, p), Gather(r, p)>> : p \in ArgSorts(x)}

\* what a call that does not get as far as sorting is handed
Unsorted == <<<<>>, <<>>>>
ViewsOrNone(x, r) == IF SortedViews(x, r) = {} THEN {Unsorted} ELSE SortedViews(x, r)

(* ------------------------------ opt_thresh ----------------------------- *)
\* A percentage is the integer literal p, or the double (k / n) * 100 that
\* opt_MCPT builds from min_kept and n.
PctInt(p) == [kind |-> "int", p |-> p, k |-> 0, n |-> 1]
PctRatio(k, n) == [kind |-> "ratio", p |-> 0, k |-> k, n |-> n]

\* PctInRange without the lower limit
PctInRangeUpperOnly(pct) ==
    IF pct.kind = "int" THEN pct.p <= 100
    ELSE pct.k <= pct.n

\* 0 <= min_cases_percent <= 100.  On doubles (k / n) * 100 is in the range
\* exactly when 0 <= k <= n.
PctInRange(pct) ==
    IF pct.kind = "int" THEN 0 <= pct.p /\ pct.p <= 100
    ELSE 0 <= pct.k /\ pct.k <= pct.n

\* The (n, k) with n <= 12 for which the double ((k / n) * 100) * n / 100
\* falls just below k, so that int() truncates it to k - 1.
RoundTripLoss == {<<3, 1>>, <<3, 2>>, <<6, 1>>, <<6, 2>>, <<6, 4>>, <<9, 3>>,
                  <<9, 6>>, <<11, 3>>, <<11, 6>>, <<12, 1>>, <<12, 2>>,
                  <<12, 4>>, <<12, 8>>}

\* int(min_cases_percent * n / 100), for a percentage in range; a ratio
\* percentage is always used with the n it was built from
TruncCases(pct, n) ==
    IF pct.kind = "int" THEN (pct.p * n) \div 100
    ELSE IF <<pct.n, pct.k>> \in RoundTripLoss THEN pct.k - 1 ELSE pct.k

MinKept(pct, n) == Max2(1, TruncCases(pct, n))

\* SweepInit with the long side seeded like the short side
SweepInitNoSeed(target, n) ==
    LET win == SumWin(target, Len(target))
        lose == SumLose(target, Len(target))
    IN [win_above |-> win, lose_above |-> lose,
        win_below |-> 0, lose_below |-> 0,
        best_high_pf |-> MinusOne, best_high_index |-> 1,
        best_low_pf |-> MinusOne, best_low_index |-> n]

\* the running sums and the best candidates before the sweep
SweepInit(target, n) ==
    LET win == SumWin(target, Len(target))
        lose == SumLose(target, Len(target))
    IN [win_above |-> win, lose_above |-> lose,
        win_below |-> 0, lose_below |-> 0,
        best_high_pf |-> PF(win, lose), best_high_index |-> 1,
        best_low_pf |-> MinusOne, best_low_index |-> n]

\* SweepStep where a candidate that only equals the best replaces it
SweepStepGe(s, ws, wr, n, min_kept, e) ==
    LET r == wr[e]
        wa == IF r > 0 THEN s.win_above - r ELSE s.win_above
        la == IF r > 0 THEN s.lose_above ELSE s.lose_above + r
        lb == IF r > 0 THEN s.lose_below + r ELSE s.lose_below
        wb == IF r > 0 THEN s.win_below ELSE s.win_below - r
        moved == [s EXCEPT !.win_above = wa, !.lose_above = la,
                           !.win_below = wb, !.lose_below = lb]
        cur_high == PF(wa, la)
        cur_low == PF(wb, lb)
        take_high == (n - e) >= min_kept /\ PFGe(cur_high, s.best_high_pf)
        take_low == e >= min_kept /\ PFGe(cur_low, s.best_low_pf)
    IN IF ws[e + 1] = ws[e] THEN moved
       ELSE [moved EXCEPT
               !.best_high_pf = IF take_high THEN cur_high ELSE @,
               !.best_high_index = IF take_high THEN e + 1 ELSE @,
               !.best_low_pf = IF take_low THEN cur_low ELSE @,
               !.best_low_index = IF take_low THEN e + 1 ELSE @]

\* SweepStep with the two minimum-size comparisons reversed
SweepStepMinReversed(s, ws, wr, n, min_kept, e) ==
    LET r == wr[e]
        wa == IF r > 0 THEN s.win_above - r ELSE s.win_above
        la == IF r > 0 THEN s.lose_above ELSE s.lose_above + r
        lb == IF r > 0 THEN s.lose_below + r ELSE s.lose_below
        wb == IF r > 0 THEN s.win_below ELSE s.win_below - r
        moved == [s EXCEPT !.win_above = wa, !.lose_above = la,
                           !.win_below = wb, !.lose_below = lb]
        cur_high == PF(wa, la)
        cur_low == PF(wb, lb)
        take_high == (n - e) <= min_kept /\ PFGt(cur_high, s.best_high_pf)
        take_low == e <= min_kept /\ PFGt(cur_low, s.best_low_pf)
    IN IF ws[e + 1] = ws[e] THEN moved
       ELSE [moved EXCEPT
               !.best_high_pf = IF take_high THEN cur_high ELSE @,
               !.best_high_index = IF take_high THEN e + 1 ELSE @,
               !.best_low_pf = IF take_low THEN cur_low ELSE @,
               !.best_low_index = IF take_low THEN e + 1 ELSE @]

\* SweepStep that evaluates a candidate between two equal predictor values
SweepStepNoTieSkip(s, ws, wr, n, min_kept, e) ==
    LET r == wr[e]
        wa == IF r > 0 THEN s.win_above - r ELSE s.win_above
        la == IF r > 0 THEN s.lose_above ELSE s.lose_above + r
        lb == IF r > 0 THEN s.lose_below + r ELSE s.lose_below
        wb == IF r > 0 THEN s.win_below ELSE s.win_below - r
        moved == [s EXCEPT !.win_above = wa, !.lose_above = la,
                           !.win_below = wb, !.lose_below = lb]
        cur_high == PF(wa, la)
        cur_low == PF(wb, lb)
        take_high == (n - e) >= min_kept /\ PFGt(cur_high, s.best_high_pf)
        take_low == e >= min_kept /\ PFGt(cur_low, s.best_low_pf)
    IN [moved EXCEPT
          !.best_high_pf = IF take_high THEN cur_high ELSE @,
          !.best_high_index = IF take_high THEN e + 1 ELSE @,
          !.best_low_pf = IF take_low THEN cur_low ELSE @,
          !.best_low_index = IF take_low THEN e + 1 ELSE @]

\* SweepStep that takes lose_above for a negative total and adds the loss
SweepStepSignedLoss(s, ws, wr, n, min_kept, e) ==
    LET r == wr[e]
        wa == IF r > 0 THEN s.win_above - r ELSE s.win_above
        la == IF r > 0 THEN s.lose_above ELSE s.lose_above - r
        lb == IF r > 0 THEN s.lose_below + r ELSE s.lose_below
        wb == IF r > 0 THEN s.win_below ELSE s.win_below - r
        moved == [s EXCEPT !.win_above = wa, !.lose_above = la,
                           !.win_below = wb, !.lose_below = lb]
        cur_high == PF(wa, la)
        cur_low == PF(wb, lb)
        take_high == (n - e) >= min_kept /\ PFGt(cur_high, s.best_high_pf)
        take_low == e >= min_kept /\ PFGt(cur_low, s.best_low_pf)
    IN IF ws[e + 1] = ws[e] THEN moved
       ELSE [moved EXCEPT
               !.best_high_pf = IF take_high THEN cur_high ELSE @,
               !.best_high_index = IF take_high THEN e + 1 ELSE @,
               !.best_low_pf = IF take_low THEN cur_low ELSE @,
               !.best_low_index = IF take_low THEN e + 1 ELSE @]

\* one pass of the loop body, for the element at sorted position e (1-based;
\* the code's i is e - 1, and its index i + 1 is position e + 1)
SweepStep(s, ws, wr, n, min_kept, e) ==
    LET r == wr[e]
        wa == IF r > 0 THEN s.win_above - r ELSE s.win_above
        la == IF r > 0 THEN s.lose_above ELSE s.lose_above + r
        lb == IF r > 0 THEN s.lose_below + r ELSE s.lose_below
        wb == IF r > 0 THEN s.win_below ELSE s.win_below - r
        moved == [s EXCEPT !.win_above = wa, !.lose_above = la,
                           !.win_below = wb, !.lose_below = lb]
        cur_high == PF(wa, la)
        cur_low == PF(wb, lb)
        take_high == (n - e) >= min_kept /\ PFGt(cur_high, s.best_high_pf)
        take_low == e >= min_kept /\ PFGt(cur_low, s.best_low_pf)
    IN IF ws[e + 1] = ws[e] THEN moved
       ELSE [moved EXCEPT
               !.best_high_pf = IF take_high THEN cur_high ELSE @,
               !.best_high_index = IF take_high THEN e + 1 ELSE @,
               !.best_low_pf = IF take_low THEN cur_low ELSE @,
               !.best_low_index = IF take_low THEN e + 1 ELSE @]

\* the state of the sweep after the elements at positions 1..e were moved
RECURSIVE Sweep(_, _, _, _, _)
Sweep(ws, wr, n, min_kept, e) ==
    IF e = 0 THEN SweepInit(wr, n)
    ELSE SweepStep(Sweep(ws, wr, n, min_kept, e - 1), ws, wr, n, min_kept, e)

\* how a call ends: the exception raised or the value returned, and the
\* work done up to that point, in order
Raise(kind, done) == [raised |-> kind, val |-> <<>>, work |-> done]
Return(val, done) == [raised |-> "none", val |-> val, work |-> done]
Result(r) == [raised |-> r.raised, val |-> r.val]

\* the checks of opt_thresh with the length check made after the sums and
\* the sort
opt_thresh_entry_late(pct, predictor, target) ==
    IF ~PctInRange(pct) THEN Raise("ValueError", <<>>)
    ELSE IF Len(predictor) # Len(target) THEN Raise("ValueError", <<"sum", "argsort">>)
    ELSE Return(<<>>, <<>>)

\* the checks opt_thresh starts with: how they end
opt_thresh_entry(pct, predictor, target) ==
    IF ~PctInRange(pct) THEN Raise("ValueError", <<>>)
    ELSE IF Len(predictor) # Len(target) THEN Raise("ValueError", <<>>)
    ELSE Return(<<>>, <<>>)

\* opt_thresh(min_cases_percent, predictor, target, use_log = False), with
\* sorted = <<work_signal, work_return>> as np.argsort orders them
opt_thresh(pct, predictor, target, sorted) ==
    LET n == Len(predictor) IN
    IF opt_thresh_entry(pct, predictor, target).raised # "none"
    THEN opt_thresh_entry(pct, predictor, target)
    ELSE IF n = 0 THEN Raise("IndexError", <<"sum", "argsort">>)
    ELSE
      LET min_kept == MinKept(pct, n)
          ws == sorted[1]
          wr == sorted[2]
          s == Sweep(ws, wr, n, min_kept, n - 1)
      IN Return([pf_all |-> PF(SumWin(target, n), SumLose(target, n)),
                 high_thresh |-> ws[s.best_high_index],
                 pf_high |-> s.best_high_pf,
                 low_thresh |-> ws[s.best_low_index],
                 pf_low |-> s.best_low_pf],
                <<"sum", "argsort", "sweep">>)

(* ------------------------ generate_threshold_table --------------------- *)
\* longest series passed to the table builder
TabMaxN == 4

TabOutcomeVals == {-1, 0, 1}
TabSignals == SeqsUpTo(SignalVals, TabMaxN)
TabReturns == SeqsUpTo(TabOutcomeVals, TabMaxN)
BinCounts == {10, 13, 27}

\* the two canonical fraction sets, in hundredths
Bins13 == <<1, 5, 10, 20, 30, 40, 50, 60, 70, 80, 90, 95, 99>>
Bins27 == <<1, 2, 3, 4, 5, 6, 7, 8, 9, 10, 20, 30, 40, 50, 60, 70, 80, 90,
            91, 92, 93, 94, 95, 96, 97, 98, 99>>

\* int(bin_fraction * (n + 1)) - 1 clamped to [0, n - 1], in this order.
\* For n < 89 the double product truncates to the exact floor.
StartIndex(h, n) ==
    LET k0 == (h * (n + 1)) \div 100 - 1
        k1 == IF k0 < 0 THEN 0 ELSE k0
    IN IF k1 > n - 1 THEN n - 1 ELSE k1

\* SnapDown that steps back over one tied value only
SnapDownOnce(ws, k) == IF k > 0 /\ ws[k] = ws[k + 1] THEN k - 1 ELSE k

\* while k > 0 and work_signal[k - 1] == work_signal[k]: k -= 1  (k 0-based)
RECURSIVE SnapDown(_, _)
SnapDown(ws, k) ==
    IF k > 0 /\ ws[k] = ws[k + 1] THEN SnapDown(ws, k - 1) ELSE k

\* TablePF with the convention of opt_thresh: a / (b + 1e-30), never inf
TablePFEpsilon(a, b) ==
    IF b > 0 THEN LET g == GCD(a, b) IN [inf |-> FALSE, num |-> a \div g, den |-> b \div g]
    ELSE [inf |-> FALSE, num |-> a, den |-> 0]

\* a / b if b > 0 else math.inf
TablePF(a, b) ==
    IF b > 0 THEN LET g == GCD(a, b) IN [inf |-> FALSE, num |-> a \div g, den |-> b \div g]
    ELSE [inf |-> TRUE, num |-> 0, den |-> 1]

\* FracLess with the split element counted on the wrong side
FracLessOffByOne(k, n) == [num |-> k + 1, den |-> n]

\* the doubles (n - k) / n and k / n
FracGtrEq(k, n) == [num |-> n - k, den |-> n]
FracLess(k, n) == [num |-> k, den |-> n]

\* the row for the split index k (0-based): positions 1..k are below
TableRow(ws, wr, n, k) ==
    LET lose_below == SumWin(wr, k)
        win_below == SumLose(wr, k)
        win_above == RangeWin(wr, k + 1, n)
        lose_above == RangeLose(wr, k + 1, n)
    IN [threshold |-> ws[k + 1],
        frac_gtr_eq |-> FracGtrEq(k, n),
        long_pf_above |-> TablePF(win_above, lose_above),
        short_pf_above |-> TablePF(lose_above, win_above),
        frac_less |-> FracLess(k, n),
        short_pf_below |-> TablePF(win_below, lose_below),
        long_pf_below |-> TablePF(lose_below, win_below),
        k |-> k]

\* the loop over the fractions: the split index of every fraction in order,
\* those with k = 0 or k = n - 1 skipped, and the row of each one kept
TableRows(bins, ws, wr, n) ==
    LET ks == [b \in 1..Len(bins) |-> SnapDown(ws, StartIndex(bins[b], n))]
        Kept(k) == ~(k = 0 \/ k = n - 1)
        kept == SelectSeq(ks, Kept)
        row == [k \in {kept[i] : i \in 1..Len(kept)} |-> TableRow(ws, wr, n, k)]
    IN [i \in 1..Len(kept) |-> row[kept[i]]]

\* generate_threshold_table(signal_vals, returns, bin_count), with
\* sorted = <<work_signal, work_return>> as np.argsort orders them;
\* returns[indices] fails when returns is the shorter array
generate_threshold_table(signal_vals, returns, bin_count, sorted) ==
    LET n == Len(signal_vals) IN
    IF bin_count # 13 /\ bin_count # 27 THEN Raise("ValueError", <<>>)
    ELSE IF Len(returns) < n THEN Raise("IndexError", <<"argsort">>)
    ELSE LET bins == IF bin_count = 13 THEN Bins13 ELSE Bins27
             ws == sorted[1]
             wr == sorted[2]
         IN Return(TableRows(bins, ws, wr, n), <<"argsort", "accumulate">>)

(* --------------------------------- bcp --------------------------------- *)
\* longest series and largest number of rows asked of bcp
BcpMaxN == 3
MaxPerms == 2

BcpTargets == SeqsUpTo(OutcomeVals, BcpMaxN)

\* a shift that drops what moves past the end instead of wrapping it round
RollNoWrap(a, shift) ==
    LET n == Len(a) IN [j \in 1..n |-> IF j - shift >= 1 THEN a[j - shift] ELSE a[1]]

\* np.roll(a, shift) for 0 <= shift: the element at 0-based position i moves
\* to position (i + shift) mod n
Roll(a, shift) ==
    LET n == Len(a) IN [j \in 1..n |-> a[((j - 1 - shift) % n) + 1]]

\* bcp(target, n_permutations), with shifts[i] the value np.random.randint(0, n)
\* returns in round i; randint raises on the empty range when n = 0
bcp(target, n_permutations, shifts) ==
    IF n_permutations > 0 /\ Len(target) = 0 THEN Raise("ValueError", <<>>)
    ELSE Return([i \in 1..n_permutations |-> Roll(target, shifts[i])],
                [i \in 1..n_permutations |-> "roll"])

\* the draws randint may make for the rows
ShiftDraws(n, k) == IF n = 0 THEN {<<>>} ELSE [1..k -> 0..(n - 1)]

(* -------------------------------- u_test ------------------------------- *)
\* longest sample passed to u_test
UMaxN == 3

UVals == {1, 2, 3}
USamples == SeqsUpTo(UVals, UMaxN)

\* the 3 + 3 samples without ties: every split of an order of 1..6
TieFree33 == {<<SubSeq(q, 1, 3), SubSeq(q, 4, 6)>> : q \in Permutations(1..6)}

UPairs == (USamples \X USamples) \cup TieFree33

Frac(a, b) == LET g == GCD(Abs(a), b) IN [num |-> a \div g, den |-> b \div g]

\* BlockEnd that never looks at the next value: every value a block of one
BlockEndSingle(sc, N, i) == i + 1

\* the inner while loop: the 0-based index just past the block of equal
\* values that starts at 0-based index i
RECURSIVE BlockEnd(_, _, _)
BlockEnd(sc, N, i) ==
    IF i < N - 1 /\ sc[i + 1] = sc[i + 2] THEN BlockEnd(sc, N, i + 1) ELSE i + 1

\* the outer while loop from 0-based index i on; ranks2 holds twice the
\* ranks: 2 * (start + (i - start - 1) / 2.0 + 1)
RECURSIVE RankLoop(_, _, _, _, _)
RankLoop(sc, N, i, ranks2, tie) ==
    IF i >= N THEN [ranks2 |-> ranks2, tie_correction |-> tie]
    ELSE LET start == i
             e == BlockEnd(sc, N, i)
             ntied == e - start
         IN RankLoop(sc, N, e,
                 [j \in 1..N |-> IF start < j /\ j <= e
                                 THEN 2 * start + (e - start - 1) + 2
                                 ELSE ranks2[j]],
                 tie + ntied * ntied * ntied - ntied)

\* UStat2 with the rank sum taken as the statistic of group 1 itself
UStat2RankSumForm(n1, n2, R2) == R2 - n1 * (n1 + 1)

\* twice U = n1 * n2 + 0.5 * (n1 * (n1 + 1.0)) - R, from twice R
UStat2(n1, n2, R2) == 2 * n1 * n2 + n1 * (n1 + 1) - R2

RECURSIVE RankSum2(_, _, _)
RankSum2(ranks2, sg, k) ==
    IF k = 0 THEN 0
    ELSE RankSum2(ranks2, sg, k - 1) + (IF sg[k] = 1 THEN ranks2[k] ELSE 0)

\* ZScore with the numerator U - 0.5 * n1 * n2
ZScoreUnflipped(num2, v, d) ==
    [kind |-> IF v # 0 THEN "finite"
              ELSE IF num2 = 0 THEN "nan"
              ELSE IF num2 < 0 THEN "inf" ELSE "-inf",
     num2 |-> -num2, v |-> v, d |-> d]

\* z = (0.5 * n1 * n2 - U) / sqrt(term1 * term2), kept as twice its
\* numerator, num2, and the fraction v / d under the root; a zero under the
\* root makes the numpy division give nan or an infinity
ZScore(num2, v, d) ==
    [kind |-> IF v # 0 THEN "finite"
              ELSE IF num2 = 0 THEN "nan"
              ELSE IF num2 > 0 THEN "inf" ELSE "-inf",
     num2 |-> num2, v |-> v, d |-> d]

\* u_test(n1, x1, n2, x2), with sorted = <<sorted_combined, sorted_group>>
\* as np.argsort orders them; n1 * n2 / (dn * (dn - 1.0)) is a Python
\* division, which raises when dn is 0 or 1
u_test(n1, x1, n2, x2, sorted) ==
    LET N == n1 + n2
        sc == sorted[1]
        sg == sorted[2]
        rk == RankLoop(sc, N, 0, [j \in 1..N |-> 0], 0)
        R2 == RankSum2(rk.ranks2, sg, N)
        U2 == UStat2(n1, n2, R2)
    IN IF N * (N - 1) = 0 THEN Raise("ZeroDivisionError", <<"argsort", "rank">>)
       ELSE Return([U |-> Frac(U2, 2),
                    z |-> ZScore(n1 * n2 - U2,
                                 n1 * n2 * (N * N * N - N - rk.tie_correction),
                                 12 * N * (N - 1)),
                    tie_correction |-> rk.tie_correction,
                    ranks2 |-> rk.ranks2,
                    sorted_group |-> sg],
                   <<"argsort", "rank">>)

\* group: 1 for the members of x1, 0 for those of x2
GroupOf(n1, n2) == [j \in 1..(n1 + n2) |-> IF j <= n1 THEN 1 ELSE 0]

(* ------------------------------- opt_MCPT ------------------------------ *)
\* longest series passed to opt_MCPT and largest repetition count
McptMaxN == 2
MaxReps == 3

McptOutcomeVals == {-1, 1, 2}
\* every series up to the bound, and a few longer ones on which a trial can
\* raise one count and not another
McptSignals == SeqsUpTo(SignalVals, McptMaxN)
                 \cup {<<1, 2, 3>>, <<2, 1, 2>>, <<1, 2, 3, 4>>}
McptReturns == SeqsUpTo(McptOutcomeVals, McptMaxN) \cup [1..3 -> {-1, 2}]
                 \cup {<<-2, -2, -1>>, <<-2, 1, 2, -1>>, <<-2, 2, -2, 1>>}

\* max(a, b) of Python: b only when b > a
PFMax(a, b) == IF PFGt(b, a) THEN b ELSE a

Negate(x) == [j \in 1..Len(x) |-> -x[j]]

\* the orders np.random.shuffle may leave the array in
Shuffles(x) == {Gather(x, q) : q \in Permutations(1..Len(x))}

\* first value of irep in for irep in range(1, nreps)
FirstRep == 1

\* a loop that also runs for irep = nreps
MoreRepsInclusive(i, nreps) == i <= nreps

\* irep is still inside range(1, nreps)
MoreReps(i, nreps) == i < nreps

\* PVal with a p-value of 1.0 when no repetition was asked for
PValZeroAsOne(count, nreps) ==
    IF nreps > 0 THEN [nan |-> FALSE, num |-> Frac(count, nreps).num,
                       den |-> Frac(count, nreps).den]
    ELSE [nan |-> FALSE, num |-> 1, den |-> 1]

\* what the double count / nreps is above the fraction p.num / p.den it
\* stands for, in units of 1 / (p.den * 2^54), for nreps up to 6; the
\* quotients with 1, 2 or 4 below are exact
DoubleError(p) ==
    CASE <<p.num, p.den>> = <<1, 3>> -> -1
      [] <<p.num, p.den>> = <<2, 3>> -> -2
      [] <<p.num, p.den>> = <<1, 5>> -> 1
      [] <<p.num, p.den>> = <<2, 5>> -> 2
      [] <<p.num, p.den>> = <<3, 5>> -> -2
      [] <<p.num, p.den>> = <<4, 5>> -> 4
      [] <<p.num, p.den>> = <<1, 6>> -> -1
      [] <<p.num, p.den>> = <<5, 6>> -> 4
      [] OTHER -> 0

\* count / nreps, and the nan of nreps = 0
PVal(count, nreps) ==
    IF nreps > 0 THEN [nan |-> FALSE, num |-> Frac(count, nreps).num,
                       den |-> Frac(count, nreps).den]
    ELSE [nan |-> TRUE, num |-> 0, den |-> 1]

\* TrialHit where the best of a trial is compared with the baseline pf_low
TrialHitBestOverLow(rep, orig) ==
    [long |-> IF PFGe(rep.pf_high, orig.pf_high) THEN 1 ELSE 0,
     short |-> IF PFGe(rep.pf_low, orig.pf_low) THEN 1 ELSE 0,
     best |-> IF PFGe(PFMax(rep.pf_high, rep.pf_low), orig.pf_low) THEN 1 ELSE 0]

\* TrialHit where a trial that only equals the baseline is not counted
TrialHitStrict(rep, orig) ==
    [long |-> IF PFGt(rep.pf_high, orig.pf_high) THEN 1 ELSE 0,
     short |-> IF PFGt(rep.pf_low, orig.pf_low) THEN 1 ELSE 0,
     best |-> IF PFGt(PFMax(rep.pf_high, rep.pf_low),
                      PFMax(orig.pf_high, orig.pf_low)) THEN 1 ELSE 0]

\* what one trial adds to the three counts: 1 where the trial's statistic is
\* at least the baseline's
TrialHit(rep, orig) ==
    [long |-> IF PFGe(rep.pf_high, orig.pf_high) THEN 1 ELSE 0,
     short |-> IF PFGe(rep.pf_low, orig.pf_low) THEN 1 ELSE 0,
     best |-> IF PFGe(PFMax(rep.pf_high, rep.pf_low),
                      PFMax(orig.pf_high, orig.pf_low)) THEN 1 ELSE 0]

\* CallerAfterShuffle when work_permute is the caller's array itself
CallerAfterShuffleAliased(a, shuffled) == [a EXCEPT !.returns = shuffled]

\* the caller's arguments after np.random.shuffle(work_permute): the shuffle
\* acts in place on work_permute, which np.copy made an array of its own
CallerAfterShuffle(a, shuffled) == a

\* the checks and the setup before the first opt_thresh call: the exception
\* raised there, or "none"
mcpt_entry(signal_vals, returns, min_kept, nreps) ==
    IF nreps < 0 THEN "ValueError"
    ELSE IF Len(signal_vals) # Len(returns) THEN "ValueError"
    ELSE IF Len(signal_vals) = 0 THEN "ZeroDivisionError"
    ELSE "none"

\* the opt_thresh call opt_MCPT makes on the array work_permute
mcpt_opt_thresh(signal, min_kept, permuted, sorted) ==
    opt_thresh(PctRatio(min_kept, Len(signal)), signal, permuted, sorted)

\* the trial events of the work trace, t times over
RECURSIVE TrialWork(_)
TrialWork(t) ==
    IF t = 0 THEN <<>>
    ELSE TrialWork(t - 1) \o <<"shuffle", "sum", "argsort", "sweep">>

\* what a trial on some shuffle of returns may add to the counts
TrialHits(sig, returns, min_kept, orig) ==
    UNION {{TrialHit(mcpt_opt_thresh(sig, min_kept, shuffled, sorted).val, orig) :
               sorted \in SortedViews(sig, shuffled)} :
           shuffled \in Shuffles(returns)}

\* the counts opt_MCPT may hold after t trials
RECURSIVE CountsAfter(_, _)
CountsAfter(hits, t) ==
    IF t = 0 THEN {[long |-> 1, short |-> 1, best |-> 1]}
    ELSE {[long |-> c.long + h.long, short |-> c.short + h.short,
           best |-> c.best + h.best] : c \in CountsAfter(hits, t - 1), h \in hits}

\* opt_MCPT(signal_vals, returns, min_kept, flip_sign, nreps) as a callee:
\* every way the call may end
opt_MCPT(signal_vals, returns, min_kept, flip_sign, nreps) ==
    LET early == mcpt_entry(signal_vals, returns, min_kept, nreps)
        sig == IF flip_sign THEN Negate(signal_vals) ELSE signal_vals
        trials == Max2(nreps - FirstRep, 0)
    IN IF early = "ValueError" THEN {Raise(early, <<>>)}
       ELSE IF early # "none" THEN {Raise(early, <<"copy">>)}
       ELSE UNION {
              LET r == mcpt_opt_thresh(sig, min_kept, returns, sorted) IN
                IF r.raised # "none" THEN {Raise(r.raised, <<"copy">> \o r.work)}
                ELSE {Return([pf_all |-> r.val.pf_all,
                              high_thresh |-> r.val.high_thresh,
                              pf_high |-> r.val.pf_high,
                              low_thresh |-> r.val.low_thresh,
                              pf_low |-> r.val.pf_low,
                              pval_long |-> PVal(c.long, nreps),
                              pval_short |-> PVal(c.short, nreps),
                              pval_best |-> PVal(c.best, nreps)],
                             <<"copy">> \o r.work \o TrialWork(trials)) :
                        c \in CountsAfter(TrialHits(sig, returns, min_kept, r.val), trials)}
              : sorted \in ViewsOrNone(sig, returns)}

(* ------------------------ generate_threshold_report -------------------- *)
\* longest column of a frame and largest n_permutations handed to the report
RepMaxN == 2
RepMaxPerms == 2

RepFeatureVals == {1, 2}
RepTargetVals == {-1, 2}
RepPercents == {-1, 0, 50, 101}

\* a DataFrame without its Date column: one or two columns of one length
Frames(S) == {<<c>> : c \in S} \cup {f \in S \X S : Len(f[1]) = Len(f[2])}

\* features of one or two columns; a target of the one column Return, as in
\* the example of the docstring
RepFeatures == Frames(SeqsUpTo(RepFeatureVals, RepMaxN))
RepTargets == {<<c>> : c \in SeqsUpTo(RepTargetVals, RepMaxN)}

\* the checks on bins, min_cases_percent and n_permutations: the exception
\* raised, or "none".  (features and target are DataFrames here.)
report_entry(bins, min_cases_percent, n_permutations) ==
    IF bins # 13 /\ bins # 27 THEN "ValueError"
    ELSE IF ~(0 <= min_cases_percent /\ min_cases_percent <= 100) THEN "ValueError"
    ELSE IF n_permutations < 0 THEN "ValueError"
    ELSE "none"

\* the lines print() is handed, as the values they are formatted from
Line(kind, val) == [line |-> kind, val |-> val]

HeaderLines(already) == IF already THEN <<>> ELSE <<Line("header", <<>>)>>

TableLines(roc) ==
    [i \in 1..Len(roc) |->
        Line("row", <<roc[i].threshold, roc[i].frac_gtr_eq, roc[i].long_pf_above,
                      roc[i].short_pf_above, roc[i].frac_less,
                      roc[i].short_pf_below, roc[i].long_pf_below>>)]

\* a profit factor above 1e20 is printed as the word infinite
ThreshLines(v) ==
    <<Line("grand", <<Infinite(v.pf_all), v.pf_all>>),
      Line("long", <<v.high_thresh, Infinite(v.pf_high), v.pf_high>>),
      Line("short", <<v.low_thresh, Infinite(v.pf_low), v.pf_low>>)>>

PValLines(v) == <<Line("pvalues", <<v.pval_long, v.pval_short, v.pval_best>>)>>

(* -------------------- compute_serial_correlated_break ------------------ *)
\* the -np.inf that max_crit starts from
NegInf == [kind |-> "-inf", num2 |-> 0, v |-> 1, d |-> 1]

\* abs(crit) of a z-score
AbsZ(z) == [kind |-> IF z.kind = "-inf" THEN "inf" ELSE z.kind,
            num2 |-> Abs(z.num2), v |-> z.v, d |-> z.d]

\* a > b on two doubles that are nan, -inf, inf or the absolute value of a
\* finite z-score; finite ones are compared by their squares.  For series of
\* up to 5 values two splits give equal |z| only through the same products
\* or with both 0, so the doubles compare as the exact values do.
CritGt(a, b) ==
    CASE a.kind = "nan" \/ b.kind = "nan" -> FALSE
      [] a.kind = "-inf" -> FALSE
      [] b.kind = "-inf" -> TRUE
      [] a.kind = "inf" -> b.kind # "inf"
      [] b.kind = "inf" -> FALSE
      [] OTHER -> a.num2 * a.num2 * a.d * b.v > b.num2 * b.num2 * b.d * a.v

\* a >= b on the same doubles
CritGe(a, b) ==
    CASE a.kind = "nan" \/ b.kind = "nan" -> FALSE
      [] b.kind = "-inf" -> TRUE
      [] a.kind = "-inf" -> FALSE
      [] a.kind = "inf" -> TRUE
      [] b.kind = "inf" -> FALSE
      [] OTHER -> a.num2 * a.num2 * a.d * b.v >= b.num2 * b.num2 * b.d * a.v

\* for nrecent in range(min_recent, max_recent + 1, lag), from nrecent on:
\* the passes that reach u_test, as <<nrecent, n1>>, in order
RECURSIVE NrecentLoop(_, _, _, _, _)
NrecentLoop(ncases, nrecent, max_recent, lag, offset) ==
    IF nrecent > max_recent THEN <<>>
    ELSE LET n1 == ((nrecent - offset - 1) \div lag) + 1
             skipped == nrecent < offset + 1 \/ ncases - n1 < 1
         IN (IF skipped THEN <<>> ELSE <<[nrecent |-> nrecent, n1 |-> n1]>>)
              \o NrecentLoop(ncases, nrecent + lag, max_recent, lag, offset)

\* for offset in range(lag + 1), from offset on
RECURSIVE OffsetLoop(_, _, _, _, _)
OffsetLoop(ncases, min_recent, max_recent, lag, offset) ==
    IF offset > lag THEN <<>>
    ELSE NrecentLoop(ncases, min_recent, max_recent, lag, offset)
           \o OffsetLoop(ncases, min_recent, max_recent, lag, offset + 1)

\* the z-scores u_test may return for values[:n1] against values[n1:n1+n2],
\* one for each order np.argsort may give the combined sample
SplitZs(values, ncases, n1) ==
    LET n2 == ncases - n1
        x1 == SubSeq(values, 1, n1)
        x2 == SubSeq(values, n1 + 1, n1 + n2)
    IN {u_test(n1, x1, n2, x2, sorted).val.z :
          sorted \in SortedViews(x1 \o x2, GroupOf(n1, n2))}

\* BreakStep where a pass that only equals max_crit becomes the break
BreakStepGe(values, ncases, s, split) ==
    {IF CritGe(AbsZ(z), s.max_crit)
     THEN [max_crit |-> AbsZ(z), ibreak |-> split.nrecent]
     ELSE s : z \in SplitZs(values, ncases, split.n1)}

\* one pass that reaches u_test: if abs(crit) > max_crit the pass becomes
\* the break
BreakStep(values, ncases, s, split) ==
    {IF CritGt(AbsZ(z), s.max_crit)
     THEN [max_crit |-> AbsZ(z), ibreak |-> split.nrecent]
     ELSE s : z \in SplitZs(values, ncases, split.n1)}

\* max_crit and ibreak after the first k passes
RECURSIVE BreakFold(_, _, _, _)
BreakFold(values, ncases, splits, k) ==
    IF k = 0 THEN {[max_crit |-> NegInf, ibreak |-> -1]}
    ELSE UNION {BreakStep(values, ncases, s, splits[k]) :
                  s \in BreakFold(values, ncases, splits, k - 1)}

\* compute_serial_correlated_break(values, ncases, min_recent, max_recent,
\* lag) for ncases = len(values): every way the call may end.  A negative
\* lag leaves the outer range empty; range() refuses a step of 0; u_test is
\* only reached with n1 >= 1 and n2 >= 1, where it does not raise.
compute_serial_correlated_break(values, ncases, min_recent, max_recent, lag) ==
    IF lag < 0 THEN {Return([max_crit |-> NegInf, ibreak |-> -1], <<>>)}
    ELSE IF lag = 0 THEN {Raise("ValueError", <<>>)}
    ELSE LET splits == OffsetLoop(ncases, min_recent, max_recent, lag, 0)
         IN {Return(s, <<>>) : s \in BreakFold(values, ncases, splits, Len(splits))}

\* longest series handed to the break test directly, and its arguments
BreakMaxN == 4
BreakVals == {1, 2, 3}
BreakSeries == UNION {[1..k -> BreakVals] : k \in 1..BreakMaxN}
BreakMinRecents == {1, 2}
BreakMaxRecents == {2, 3, 4}
BreakLags == {-1, 0, 1, 2}

(* ------------------------------ worker pool ---------------------------- *)
\* worker processes of a pool: mp.cpu_count()
Workers == 2

\* the place of one task of a starmap call: queued, taken by a worker, or
\* ended, with what it raised or, in val, the one value it returned
Slot(status, raised, val) == [status |-> status, raised |-> raised, val |-> val]

\* pool.starmap(f, arglist): the tasks are queued in list order and the idle
\* workers take the first ones
Dispatched(arglist) ==
    [k \in 1..Len(arglist) |->
        Slot(IF k <= Workers THEN "running" ELSE "pending", "none", <<>>)]

\* the task at position k has ended as slot: the result is kept at position
\* k, and the worker takes the first task still queued
Stored(res, k, slot) ==
    LET queued == {j \in 1..Len(res) : res[j].status = "pending"}
        taken == IF queued = {} THEN 0
                 ELSE CHOOSE j \in queued : \A i \in queued : j <= i
    IN [j \in 1..Len(res) |->
          IF j = k THEN slot
          ELSE IF j = taken THEN Slot("running", "none", <<>>)
          ELSE res[j]]

AllReturned(res) == \A k \in 1..Len(res) : res[k].status = "ok"
SomeFailed(res) == \E k \in 1..Len(res) : res[k].status = "raised"

\* the return values of a starmap call, in the order of its argument list
Gathered(res) == [k \in 1..Len(res) |-> res[k].val[1]]

(* ---------------------- populate_contingency_matrix -------------------- *)
\* longest series handed to populate_contingency_matrix
ContMaxN == 3

\* the bin counts are 0 or powers of two: for integer data the edges of
\* np.linspace are then exact doubles
ContFeatures == UNION {[1..k -> {1, 2, 3}] : k \in 0..ContMaxN}
ContTargets == UNION {[1..k -> {1, 2}] : k \in 0..ContMaxN}
ContFeatureBins == {0, 1, 2, 4}
ContTargetBins == {1, 2}

\* np.min and np.max of a non-empty array
np_min(x) == CHOOSE v \in {x[j] : j \in 1..Len(x)} : \A j \in 1..Len(x) : v <= x[j]
np_max(x) == CHOOSE v \in {x[j] : j \in 1..Len(x)} : \A j \in 1..Len(x) : v >= x[j]

\* np.linspace(lo, hi, nbins + 1): the edges lo + j * (hi - lo) / nbins for
\* j = 0..nbins, each kept as nbins times its value
Linspace(lo, hi, nbins) == [j \in 0..nbins |-> nbins * lo + j * (hi - lo)]

\* np.searchsorted(bins, value, side='right'): the number of edges that are
\* at most value, for edges in ascending order
SearchSortedRight(bins, nbins, value) ==
    Cardinality({j \in DOMAIN bins : bins[j] <= nbins * value})

\* ClampBin without the upper clamp
ClampBinLowOnly(idx, nbins) == IF idx < 0 THEN 0 ELSE idx

\* if idx < 0: idx = 0 / elif idx >= nbins: idx = nbins - 1
ClampBin(idx, nbins) ==
    IF idx < 0 THEN 0 ELSE IF idx >= nbins THEN nbins - 1 ELSE idx

\* the bin of value among the edges bins
BinIndex(bins, nbins, value) ==
    ClampBin(SearchSortedRight(bins, nbins, value) - 1, nbins)

\* np.zeros of one and of two dimensions, indexed from 0
Zeros1(n) == [j \in 0..(n - 1) |-> 0]
Zeros2(n, m) == [j \in 0..(n - 1) |-> [k \in 0..(m - 1) |-> 0]]

(* -------------------------- generate_mcmbt_report ---------------------- *)
\* longest series of an indicator and largest n_permutations handed to the
\* break test report
McmbtMaxN == 3
McmbtMaxPerms == 2

McmbtVals == {1, 2}
McmbtColumns == UNION {[1..n -> McmbtVals] : n \in 1..McmbtMaxN}

\* the series of full length that never fall: a level, or one step up
McmbtSteps == {c \in [1..McmbtMaxN -> McmbtVals] :
                 \A j \in 1..(McmbtMaxN - 1) : c[j] <= c[j + 1]}

\* a recarray without its Date field: no indicator, one indicator with any
\* series, or two indicators with a series of McmbtSteps each
McmbtData == {<<>>} \cup {<<c>> : c \in McmbtColumns} \cup (McmbtSteps \X McmbtSteps)

McmbtMinRecents == {1, 2}
McmbtMaxRecents == {3}
McmbtLags == {0, 1, 2}

\* the argument list of a starmap over the indicators
McmbtTasks(cols, min_recent, max_recent, lag) ==
    [k \in 1..Len(cols) |->
        [values |-> cols[k], ncases |-> Len(cols[k]), min_recent |-> min_recent,
         max_recent |-> max_recent, lag |-> lag]]

\* permuted_data: np.random.permutation of every indicator, each on its own
RECURSIVE PermutedData(_, _)
PermutedData(cols, k) ==
    IF k = 0 THEN {<<>>}
    ELSE {Append(rest, c) : rest \in PermutedData(cols, k - 1), c \in Shuffles(cols[k])}

\* np.max of a row of statistics (none of them nan)
RECURSIVE CritMax(_, _)
CritMax(row, k) ==
    IF k = 1 THEN row[1]
    ELSE LET m == CritMax(row, k - 1) IN IF CritGt(row[k], m) THEN row[k] ELSE m

\* np.mean(hits) over the n_permutations trials; nan for no trial
MeanOf(hits, n_permutations) == PVal(Cardinality(hits), n_permutations)

\* McmbtSolo where a trial that only equals the original is not counted
McmbtSoloStrict(matrix, original_max_crits, idx) ==
    MeanOf({i \in 1..Len(matrix) : CritGt(matrix[i][idx], original_max_crits[idx])},
           Len(matrix))

\* solo_p_values[idx]
McmbtSolo(matrix, original_max_crits, idx) ==
    MeanOf({i \in 1..Len(matrix) : CritGe(matrix[i][idx], original_max_crits[idx])},
           Len(matrix))

\* the unbiased p-value: from the largest statistic of each trial against
\* the largest original one, and nan for a single indicator
McmbtUnbiased(matrix, original_max_crits) ==
    LET n_vars == Len(original_max_crits) IN
    IF n_vars > 1
    THEN MeanOf({i \in 1..Len(matrix) :
                   CritGe(CritMax(matrix[i], n_vars), CritMax(original_max_crits, n_vars))},
                Len(matrix))
    ELSE PVal(0, 0)

\* the lines of the report: the heading, which names the unbiased p-value
\* only for several indicators, and one row for each indicator
McmbtLines(original, solo, unbiased) ==
    LET n_vars == Len(original) IN
    <<Line("mcmbt_header", n_vars > 1)>>
      \o [idx \in 1..n_vars |->
            Line("mcmbt_row",
                 [indicator |-> idx, nrecent |-> original[idx].ibreak,
                  z |-> original[idx].max_crit, solo |-> solo[idx],
                  unbiased |-> IF n_vars > 1 THEN <<unbiased>> ELSE <<>>])]

(* --------------------------- generate_mi_report ------------------------ *)
\* largest n_permutations handed to the report
MiMaxPerms == 2

\* the numbers of feature fields, of target fields and of rows of a call:
\* up to two features on one target of one or two rows, and one or two
\* features on two targets of one row
MiFrames == ((0..2) \X {1} \X (1..2)) \cup ((1..2) \X {2} \X {1})

\* mutual_info is a function of its two arrays: the double it returns for
\* feature field f and target field t rolled by s is scores[f][t][s], where
\* a higher number is a higher double.  The values are those of the data,
\* which the model leaves open.
MiScores == {0, 1}
MiTables(F, T, n) == [1..F -> [1..T -> [0..(n - 1) -> MiScores]]]

mutual_info(scores, f, t, s) == scores[f][t][s]

\* original_mi_scores: one score for each feature and target, the targets
\* of one feature next to each other
MiOriginal(scores, F, T) ==
    [k \in 1..(F * T) |->
        mutual_info(scores, ((k - 1) \div T) + 1, ((k - 1) % T) + 1, 0)]

\* the argument list of the starmap: for each target, for each of its
\* permutations, for each feature
MiTasks(shifts, F, T, P) ==
    [k \in 1..(T * P * F) |->
        LET t == ((k - 1) \div (P * F)) + 1
            p == (((k - 1) \div F) % P) + 1
            f == ((k - 1) % F) + 1
        IN [feature |-> f, target |-> t, shift |-> shifts[t][p]]]

\* np.array(permuted_mi_scores).reshape(F, T, P): the element [f][t][p]
MiReshaped(flat, T, P, f, t, p) == flat[((f - 1) * T + (t - 1)) * P + p]

\* permuted_mi_scores >= original_mi_scores[:, None, None] broadcasts an
\* array of shape (F, T, P) against one of shape (F * T, 1, 1): numpy
\* refuses unless F * T = F or F = 1
MiBroadcasts(F, T) == ~(F >= 2 /\ T >= 2)

\* the p for which the comparison holds at [a][t][p] of the broadcast result
MiHits(flat, original, F, T, P, a, t) ==
    {p \in 1..P :
       MiReshaped(flat, T, P, IF F = 1 THEN 1 ELSE a, t, p) >= original[a]}

\* (np.sum(hits) + 1) / (n_permutations + 1)
MiUnbiased(hits, P) ==
    [nan |-> FALSE, num |-> Frac(Cardinality(hits) + 1, P + 1).num,
     den |-> Frac(Cardinality(hits) + 1, P + 1).den]

\* the rows of the report: zip() pairs the k-th (feature, target) with the
\* k-th score and the k-th elements of the two flattened p-value arrays
MiLines(flat, original, F, T, P) ==
    <<Line("mi_header", <<>>)>>
      \o [k \in 1..(F * T) |->
            LET a == ((k - 1) \div T) + 1
                t == ((k - 1) % T) + 1
                hits == MiHits(flat, original, F, T, P, a, t)
            IN Line("mi_row",
                    [feature |-> ((k - 1) \div T) + 1, target |-> ((k - 1) % T) + 1,
                     mi_score |-> original[k],
                     solo |-> MeanOf(hits, P), unbiased |-> MiUnbiased(hits, P)])]

(* ------------------------------- state --------------------------------- *)
NoArgs == [none |-> TRUE]
NoRet == [raised |-> "none", val |-> <<>>]
NoLocals == [none |-> TRUE]

Init ==
    /\ op = "idle"
    /\ args = NoArgs
    /\ ret = NoRet
    /\ work = <<>>
    /\ pc = "idle"
    /\ signal_loc = <<>>
    /\ work_permute = <<>>
    /\ irep = 0
    /\ long_count = 0
    /\ short_count = 0
    /\ best_count = 0
    /\ base = <<>>
    /\ fi = 0
    /\ ti = 0
    /\ header_printed = FALSE
    /\ printed = <<>>
    /\ tasks = <<>>
    /\ results = <<>>
    /\ locals = NoLocals

mcpt_vars == <<signal_loc, work_permute, irep,
               long_count, short_count, best_count, base>>

report_vars == <<fi, ti, header_printed, printed>>

pool_vars == <<tasks, results, locals>>

\* the caller hands over the arguments of a call to the function f
Call(f, a) ==
    /\ op' = f
    /\ args' = a
    /\ pc' = "called"
    /\ UNCHANGED <<ret, work>>
    /\ UNCHANGED mcpt_vars
    /\ UNCHANGED pool_vars
    /\ UNCHANGED report_vars

\* a function that runs in one step ends: r is how
Finish(result) ==
    LET r == result IN
    /\ ret' = Result(r)
    /\ work' = r.work
    /\ pc' = IF r.raised = "none" THEN "done" ELSE "raised"
    /\ UNCHANGED <<op, args>>
    /\ UNCHANGED mcpt_vars
    /\ UNCHANGED pool_vars
    /\ UNCHANGED report_vars

\* the call is over; the caller may make another
Done ==
    /\ pc \in {"done", "raised"}
    /\ op' = "idle"
    /\ args' = NoArgs
    /\ ret' = NoRet
    /\ work' = <<>>
    /\ pc' = "idle"
    /\ signal_loc' = <<>>
    /\ work_permute' = <<>>
    /\ irep' = 0
    /\ long_count' = 0
    /\ short_count' = 0
    /\ best_count' = 0
    /\ base' = <<>>
    /\ fi' = 0
    /\ ti' = 0
    /\ header_printed' = FALSE
    /\ printed' = <<>>
    /\ tasks' = <<>>
    /\ results' = <<>>
    /\ locals' = NoLocals

\* a caller invokes opt_thresh directly
CallOptThresh ==
    /\ op = "idle"
    /\ \E p \in Percents, predictor \in Predictors, target \in Outcomes :
         Call("opt_thresh", [min_cases_percent |-> p, predictor |-> predictor,
                             target |-> target])

RunOptThresh ==
    /\ op = "opt_thresh" /\ pc = "called"
    /\ \E sorted \in ViewsOrNone(args.predictor, args.target) :
         Finish(opt_thresh(PctInt(args.min_cases_percent), args.predictor,
                           args.target, sorted))

NextThresh == CallOptThresh \/ RunOptThresh \/ Done

SpecThresh == Init /\ [][NextThresh]_vars

\* a caller invokes generate_threshold_table directly
CallTable ==
    /\ op = "idle"
    /\ \E signal_vals \in TabSignals, returns \in TabReturns, bin_count \in BinCounts :
         Call("generate_threshold_table",
              [signal_vals |-> signal_vals, returns |-> returns,
               bin_count |-> bin_count])

RunTable ==
    /\ op = "generate_threshold_table" /\ pc = "called"
    /\ \E sorted \in ViewsOrNone(args.signal_vals, args.returns) :
         Finish(generate_threshold_table(args.signal_vals, args.returns,
                                         args.bin_count, sorted))

NextTable == CallTable \/ RunTable \/ Done

SpecTable == Init /\ [][NextTable]_vars

\* a caller invokes bcp
CallBcp ==
    /\ op = "idle"
    /\ \E target \in BcpTargets, k \in 0..MaxPerms :
         Call("bcp", [target |-> target, n_permutations |-> k])

RunBcp ==
    /\ op = "bcp" /\ pc = "called"
    /\ \E shifts \in ShiftDraws(Len(args.target), args.n_permutations) :
         Finish(bcp(args.target, args.n_permutations, shifts))

NextBcp == CallBcp \/ RunBcp \/ Done

SpecBcp == Init /\ [][NextBcp]_vars

\* a caller invokes u_test on two samples and their sizes
CallUTest ==
    /\ op = "idle"
    /\ \E xs \in UPairs :
         Call("u_test", [n1 |-> Len(xs[1]), x1 |-> xs[1],
                         n2 |-> Len(xs[2]), x2 |-> xs[2]])

RunUTest ==
    /\ op = "u_test" /\ pc = "called"
    /\ \E sorted \in SortedViews(args.x1 \o args.x2, GroupOf(args.n1, args.n2)) :
         Finish(u_test(args.n1, args.x1, args.n2, args.x2, sorted))

NextUTest == CallUTest \/ RunUTest \/ Done

SpecUTest == Init /\ [][NextUTest]_vars

\* a caller invokes opt_MCPT
CallMCPT ==
    /\ op = "idle"
    /\ \E signal_vals \in McptSignals, returns \in McptReturns,
          min_kept \in -1..(McptMaxN + 2), flip_sign \in BOOLEAN,
          nreps \in -1..MaxReps :
         Call("opt_MCPT", [signal_vals |-> signal_vals, returns |-> returns,
                           min_kept |-> min_kept, flip_sign |-> flip_sign,
                           nreps |-> nreps])

\* opt_MCPT up to the loop: the checks, the counts, the private copy, the
\* sign flip and the baseline on the unpermuted copy
MCPTEnter ==
    /\ op = "opt_MCPT" /\ pc = "called"
    /\ LET early == mcpt_entry(args.signal_vals, args.returns, args.min_kept, args.nreps)
           sig == IF args.flip_sign THEN Negate(args.signal_vals) ELSE args.signal_vals
       IN IF early = "ValueError"
          THEN /\ pc' = "raised"
               /\ ret' = Result(Raise(early, <<>>))
               /\ UNCHANGED work
               /\ UNCHANGED mcpt_vars
          ELSE \E sorted \in ViewsOrNone(sig, args.returns) :
                 LET r == IF early # "none" THEN Raise(early, <<>>)
                          ELSE mcpt_opt_thresh(sig, args.min_kept, args.returns, sorted)
                 IN
                   /\ long_count' = 1
                   /\ short_count' = 1
                   /\ best_count' = 1
                   /\ work_permute' = args.returns
                   /\ signal_loc' = sig
                   /\ work' = <<"copy">> \o r.work
                   /\ IF r.raised # "none"
                      THEN /\ pc' = "raised"
                           /\ ret' = Result(r)
                           /\ UNCHANGED <<irep, base>>
                      ELSE /\ pc' = "loop"
                           /\ base' = r.val
                           /\ irep' = FirstRep
                           /\ UNCHANGED ret
    /\ UNCHANGED <<op, args>>
    /\ UNCHANGED report_vars
    /\ UNCHANGED pool_vars

\* one pass of for irep in range(1, nreps)
MCPTTrial ==
    /\ op = "opt_MCPT" /\ pc = "loop"
    /\ MoreReps(irep, args.nreps)
    /\ \E shuffled \in Shuffles(work_permute) :
         \E sorted \in SortedViews(signal_loc, shuffled) :
           LET rep == mcpt_opt_thresh(signal_loc, args.min_kept, shuffled, sorted).val IN
             /\ work_permute' = shuffled
             /\ long_count' = long_count + TrialHit(rep, base).long
             /\ short_count' = short_count + TrialHit(rep, base).short
             /\ best_count' = best_count + TrialHit(rep, base).best
             /\ work' = work \o <<"shuffle", "sum", "argsort", "sweep">>
             /\ args' = CallerAfterShuffle(args, shuffled)
    /\ irep' = irep + 1
    /\ UNCHANGED <<op, ret, pc, signal_loc, base>>
    /\ UNCHANGED report_vars
    /\ UNCHANGED pool_vars

\* the loop is over: the p-values and the return
MCPTReturn ==
    /\ op = "opt_MCPT" /\ pc = "loop"
    /\ ~MoreReps(irep, args.nreps)
    /\ ret' = Result(Return([pf_all |-> base.pf_all,
                             high_thresh |-> base.high_thresh,
                             pf_high |-> base.pf_high,
                             low_thresh |-> base.low_thresh,
                             pf_low |-> base.pf_low,
                             pval_long |-> PVal(long_count, args.nreps),
                             pval_short |-> PVal(short_count, args.nreps),
                             pval_best |-> PVal(best_count, args.nreps)], work))
    /\ pc' = "done"
    /\ UNCHANGED <<op, args, work>>
    /\ UNCHANGED mcpt_vars
    /\ UNCHANGED pool_vars
    /\ UNCHANGED report_vars

NextMCPT == CallMCPT \/ MCPTEnter \/ MCPTTrial \/ MCPTReturn \/ Done

SpecMCPT == Init /\ [][NextMCPT]_vars

\* a caller invokes generate_threshold_report
CallReport ==
    /\ op = "idle"
    /\ \E features \in RepFeatures, target \in RepTargets, bins \in BinCounts,
          min_cases_percent \in RepPercents, n_permutations \in -1..RepMaxPerms :
         Call("generate_threshold_report",
              [features |-> features, target |-> target, bins |-> bins,
               min_cases_percent |-> min_cases_percent,
               n_permutations |-> n_permutations])

\* the report up to its loops: the checks, then header_printed = False
ReportEnter ==
    /\ op = "generate_threshold_report" /\ pc = "called"
    /\ IF report_entry(args.bins, args.min_cases_percent, args.n_permutations) # "none"
       THEN /\ pc' = "raised"
            /\ ret' = [raised |-> "ValueError", val |-> <<>>]
            /\ UNCHANGED report_vars
       ELSE /\ pc' = "loop"
            /\ fi' = 1
            /\ ti' = 1
            /\ header_printed' = FALSE
            /\ printed' = <<>>
            /\ UNCHANGED ret
    /\ UNCHANGED <<op, args, work>>
    /\ UNCHANGED mcpt_vars
    /\ UNCHANGED pool_vars

\* the report raises what a callee raised
ReportRaise(r, worked, lines, header) ==
    /\ pc' = "raised"
    /\ ret' = Result(r)
    /\ work' = worked
    /\ printed' = lines
    /\ header_printed' = header
    /\ UNCHANGED <<fi, ti>>

\* the body of the inner loop is through: on to the next target column, or
\* to the next feature column
ReportAdvance(worked, lines) ==
    /\ work' = worked
    /\ printed' = lines
    /\ header_printed' = TRUE
    /\ IF ti < Len(args.target)
       THEN ti' = ti + 1 /\ fi' = fi
       ELSE ti' = 1 /\ fi' = fi + 1
    /\ UNCHANGED <<pc, ret>>

\* one pass of the inner loop: the table and its lines, opt_thresh and its
\* lines, and with n_permutations > 0 opt_MCPT and the p-values
ReportPair ==
    /\ op = "generate_threshold_report" /\ pc = "loop"
    /\ fi <= Len(args.features)
    /\ LET feature == args.features[fi]
           target_array == args.target[ti]
       IN \E sorted \in ViewsOrNone(feature, target_array) :
            LET roc == generate_threshold_table(feature, target_array, args.bins, sorted)
                opt == opt_thresh(PctInt(args.min_cases_percent), feature,
                                  target_array, sorted)
                min_kept == MinKept(PctInt(args.min_cases_percent), Len(feature))
                lines1 == printed \o HeaderLines(header_printed)
                             \o <<Line("pair", <<fi, ti>>)>> \o TableLines(roc.val)
                lines2 == lines1 \o ThreshLines(opt.val)
                work2 == work \o roc.work \o opt.work
            IN IF roc.raised # "none"
               THEN ReportRaise(roc, work \o roc.work, printed, header_printed)
               ELSE IF opt.raised # "none"
               THEN ReportRaise(opt, work2, lines1, TRUE)
               ELSE IF args.n_permutations > 0
               THEN \E m \in opt_MCPT(feature, target_array, min_kept, FALSE,
                                      args.n_permutations) :
                      IF m.raised # "none"
                      THEN ReportRaise(m, work2 \o m.work, lines2, TRUE)
                      ELSE ReportAdvance(work2 \o m.work, lines2 \o PValLines(m.val))
               ELSE ReportAdvance(work2, lines2)
    /\ UNCHANGED <<op, args>>
    /\ UNCHANGED mcpt_vars
    /\ UNCHANGED pool_vars

\* both loops are over: the report returns None
ReportReturn ==
    /\ op = "generate_threshold_report" /\ pc = "loop"
    /\ fi > Len(args.features)
    /\ pc' = "done"
    /\ ret' = [raised |-> "none", val |-> <<>>]
    /\ UNCHANGED <<op, args, work>>
    /\ UNCHANGED mcpt_vars
    /\ UNCHANGED pool_vars
    /\ UNCHANGED report_vars

NextReport == CallReport \/ ReportEnter \/ ReportPair \/ ReportReturn \/ Done

SpecReport == Init /\ [][NextReport]_vars

\* the functions that check their arguments, each called directly
NextChecked ==
    \/ CallOptThresh \/ RunOptThresh
    \/ CallMCPT \/ MCPTEnter \/ MCPTTrial \/ MCPTReturn
    \/ CallTable \/ RunTable
    \/ CallReport \/ ReportEnter \/ ReportPair \/ ReportReturn
    \/ Done

SpecChecked == Init /\ [][NextChecked]_vars

\* the two functions that compute profit factors, each called directly
NextProfitFactor == CallOptThresh \/ RunOptThresh \/ CallTable \/ RunTable \/ Done

SpecProfitFactor == Init /\ [][NextProfitFactor]_vars

\* a caller invokes compute_serial_correlated_break on a whole series
CallBreak ==
    /\ op = "idle"
    /\ \E values \in BreakSeries, min_recent \in BreakMinRecents,
          max_recent \in BreakMaxRecents, lag \in BreakLags :
         Call("compute_serial_correlated_break",
              [values |-> values, ncases |-> Len(values),
               min_recent |-> min_recent, max_recent |-> max_recent,
               lag |-> lag])

RunBreak ==
    /\ op = "compute_serial_correlated_break" /\ pc = "called"
    /\ \E r \in compute_serial_correlated_break(args.values, args.ncases,
                                                args.min_recent, args.max_recent,
                                                args.lag) :
         Finish(r)

NextBreak == CallBreak \/ RunBreak \/ Done

SpecBreak == Init /\ [][NextBreak]_vars

\* a caller invokes populate_contingency_matrix
CallContingency ==
    /\ op = "idle"
    /\ \E feature \in ContFeatures, target \in ContTargets,
          nbins_feature \in ContFeatureBins, nbins_target \in ContTargetBins :
         Call("populate_contingency_matrix",
              [feature |-> feature, target |-> target,
               nbins_feature |-> nbins_feature, nbins_target |-> nbins_target])

\* the locals of populate_contingency_matrix; i counts the samples done and
\* the two indexes have no value before the first pass
ContLocals(i, bf, bt, idx_f, idx_t, c_xy, c_f, c_t) ==
    [i |-> i, bins_feature |-> bf, bins_target |-> bt,
     idx_feature |-> idx_f, idx_target |-> idx_t,
     c_xy |-> c_xy, c_feature |-> c_f, c_target |-> c_t]

\* what every step of the function leaves alone
ContFrame ==
    /\ UNCHANGED <<op, args, work, tasks, results>>
    /\ UNCHANGED mcpt_vars
    /\ UNCHANGED report_vars

\* up to the loop: the edges and the zeroed counts; np.min raises on an
\* empty array
ContEnter ==
    /\ op = "populate_contingency_matrix" /\ pc = "called"
    /\ IF Len(args.feature) = 0 \/ Len(args.target) = 0
       THEN /\ pc' = "raised"
            /\ ret' = Result(Raise("ValueError", <<>>))
            /\ UNCHANGED locals
       ELSE /\ pc' = "loop"
            /\ locals' = ContLocals(0,
                  Linspace(np_min(args.feature), np_max(args.feature), args.nbins_feature),
                  Linspace(np_min(args.target), np_max(args.target), args.nbins_target),
                  -1, -1,
                  Zeros2(args.nbins_feature, args.nbins_target),
                  Zeros1(args.nbins_feature), Zeros1(args.nbins_target))
            /\ UNCHANGED ret
    /\ ContFrame

\* one pass of for i in range(len(feature)): target[i] fails past the end
\* of a shorter target, and an array without bins has no element to count in
ContSample ==
    /\ op = "populate_contingency_matrix" /\ pc = "loop"
    /\ locals.i < Len(args.feature)
    /\ LET i == locals.i + 1
           nf == args.nbins_feature
           nt == args.nbins_target
       IN IF i > Len(args.target) \/ nf = 0 \/ nt = 0
          THEN /\ pc' = "raised"
               /\ ret' = Result(Raise("IndexError", <<>>))
               /\ UNCHANGED locals
          ELSE LET f == BinIndex(locals.bins_feature, nf, args.feature[i])
                   t == BinIndex(locals.bins_target, nt, args.target[i])
               IN /\ locals' = [locals EXCEPT
                                  !.i = i,
                                  !.idx_feature = f,
                                  !.idx_target = t,
                                  !.c_feature[f] = @ + 1,
                                  !.c_target[t] = @ + 1,
                                  !.c_xy[f][t] = @ + 1]
                  /\ UNCHANGED <<pc, ret>>
    /\ ContFrame

\* return c_xy, c_feature, c_target
ContReturn ==
    /\ op = "populate_contingency_matrix" /\ pc = "loop"
    /\ locals.i >= Len(args.feature)
    /\ pc' = "done"
    /\ ret' = Result(Return([c_xy |-> locals.c_xy, c_feature |-> locals.c_feature,
                             c_target |-> locals.c_target], <<>>))
    /\ UNCHANGED locals
    /\ ContFrame

NextContingency == CallContingency \/ ContEnter \/ ContSample \/ ContReturn \/ Done

SpecContingency == Init /\ [][NextContingency]_vars

\* a caller invokes generate_mcmbt_report
CallMcmbt ==
    /\ op = "idle"
    /\ \E data \in McmbtData, min_recent \in McmbtMinRecents,
          max_recent \in McmbtMaxRecents, lag \in McmbtLags,
          n_permutations \in -1..McmbtMaxPerms :
         Call("generate_mcmbt_report",
              [data |-> data, min_recent |-> min_recent, max_recent |-> max_recent,
               lag |-> lag, n_permutations |-> n_permutations])

\* the locals of generate_mcmbt_report
McmbtLocals(stage, original, matrix, solo, unbiased) ==
    [stage |-> stage, original |-> original, permuted_max_crits |-> matrix,
     first_error |-> "none",
     solo_p_values |-> solo, unbiased_p_value |-> unbiased]

\* the report up to its first starmap: without an indicator it prints the
\* error line and returns; otherwise the original tests are dispatched
McmbtEnter ==
    /\ op = "generate_mcmbt_report" /\ pc = "called"
    /\ IF Len(args.data) = 0
       THEN /\ printed' = <<Line("mcmbt_error", <<>>)>>
            /\ pc' = "done"
            /\ ret' = [raised |-> "none", val |-> <<>>]
            /\ UNCHANGED pool_vars
       ELSE /\ tasks' = McmbtTasks(args.data, args.min_recent, args.max_recent, args.lag)
            /\ results' = Dispatched(tasks')
            /\ locals' = McmbtLocals("original", <<>>, <<>>, <<>>, <<>>)
            /\ pc' = "pool"
            /\ UNCHANGED <<ret, printed>>
    /\ UNCHANGED <<op, args, work, fi, ti, header_printed>>
    /\ UNCHANGED mcpt_vars

PoolReport == op \in {"generate_mcmbt_report", "generate_mi_report"}

\* TaskOutcomes for a break test that shuffles the series it was given
TaskOutcomesShuffling(task) ==
    IF op = "generate_mcmbt_report"
    THEN UNION {compute_serial_correlated_break(v, task.ncases, task.min_recent,
                                                task.max_recent, task.lag) :
                  v \in Shuffles(task.values)}
    ELSE {Return(mutual_info(args.scores, task.feature, task.target, task.shift), <<>>)}

\* every way the function of a task may end on its arguments
TaskOutcomes(task) ==
    IF op = "generate_mcmbt_report"
    THEN compute_serial_correlated_break(task.values, task.ncases, task.min_recent,
                                         task.max_recent, task.lag)
    ELSE {Return(mutual_info(args.scores, task.feature, task.target, task.shift), <<>>)}

\* the pool keeps how the task at position k ended; the first exception is
\* the one starmap will raise
TaskEnds(k, slot) ==
    /\ results' = Stored(results, k, slot)
    /\ locals' = [locals EXCEPT
                    !.first_error = IF slot.status = "raised" /\ @ = "none"
                                    THEN slot.raised ELSE @]
    /\ UNCHANGED <<op, args, ret, work, pc, tasks>>
    /\ UNCHANGED mcpt_vars
    /\ UNCHANGED report_vars

\* a worker finishes the task it took: the function returned or raised
WorkerReturn ==
    /\ PoolReport /\ pc = "pool"
    /\ \E k \in 1..Len(tasks) :
         /\ results[k].status = "running"
         /\ \E r \in TaskOutcomes(tasks[k]) :
              TaskEnds(k, IF r.raised = "none" THEN Slot("ok", "none", <<r.val>>)
                          ELSE Slot("raised", r.raised, <<>>))

\* a task fails in its worker for a reason outside its function; one such
\* failure is followed, the first of its starmap
WorkerError ==
    /\ PoolReport /\ pc = "pool"
    /\ locals.first_error = "none"
    /\ \E k \in 1..Len(tasks) :
         /\ results[k].status = "running"
         /\ TaskEnds(k, Slot("raised", "MemoryError", <<>>))

\* a pool that hands a failed task out again instead of raising
StarmapRetries ==
    /\ PoolReport /\ pc = "pool"
    /\ SomeFailed(results)
    /\ results' = [k \in 1..Len(results) |->
                     IF results[k].status = "raised"
                     THEN Slot("running", "none", <<>>) ELSE results[k]]
    /\ UNCHANGED <<op, args, ret, work, pc, tasks, locals>>
    /\ UNCHANGED mcpt_vars
    /\ UNCHANGED report_vars

\* starmap raises the first exception of its tasks, once all of them have
\* ended (Python 3.8 on) or as soon as it is stored (3.6 and 3.7); leaving
\* the with block terminates the pool
StarmapRaise ==
    /\ PoolReport /\ pc = "pool"
    /\ SomeFailed(results)
    /\ pc' = "raised"
    /\ ret' = [raised |-> locals.first_error, val |-> <<>>]
    /\ UNCHANGED <<op, args, work>>
    /\ UNCHANGED mcpt_vars
    /\ UNCHANGED report_vars
    /\ UNCHANGED pool_vars

\* the loop over the trials from the top, and what follows it: the next
\* trial draws its permutations and dispatches them, and after the last one
\* the p-values are computed and the report is printed
McmbtLoop(original, matrix) ==
    LET crits == [k \in 1..Len(original) |-> original[k].max_crit]
        solo == [idx \in 1..Len(original) |-> McmbtSolo(matrix, crits, idx)]
        unbiased == McmbtUnbiased(matrix, crits)
    IN IF Len(matrix) < args.n_permutations
       THEN /\ \E permuted_data \in PermutedData(args.data, Len(args.data)) :
                 tasks' = McmbtTasks(permuted_data, args.min_recent,
                                     args.max_recent, args.lag)
            /\ results' = Dispatched(tasks')
            /\ locals' = McmbtLocals("permuted", original, matrix, <<>>, <<>>)
            /\ UNCHANGED <<pc, ret, printed>>
       ELSE /\ locals' = McmbtLocals("report", original, matrix, solo, <<unbiased>>)
            /\ printed' = McmbtLines(original, solo, unbiased)
            /\ pc' = "done"
            /\ ret' = [raised |-> "none", val |-> <<>>]
            /\ UNCHANGED <<tasks, results>>

\* starmap returns the list of results.  After the original tests the
\* matrix of the trials is allocated, which fails for a negative
\* n_permutations; after a trial its statistics become the next row
McmbtJoin ==
    /\ op = "generate_mcmbt_report" /\ pc = "pool"
    /\ AllReturned(results)
    /\ IF locals.stage = "original"
       THEN IF args.n_permutations < 0
            THEN /\ pc' = "raised"
                 /\ ret' = [raised |-> "ValueError", val |-> <<>>]
                 /\ locals' = [locals EXCEPT !.original = Gathered(results)]
                 /\ UNCHANGED <<tasks, results, printed>>
            ELSE McmbtLoop(Gathered(results), <<>>)
       ELSE McmbtLoop(locals.original,
                      Append(locals.permuted_max_crits,
                             [k \in 1..Len(results) |-> results[k].val[1].max_crit]))
    /\ UNCHANGED <<op, args, work, fi, ti, header_printed>>
    /\ UNCHANGED mcpt_vars

NextMcmbt ==
    \/ CallMcmbt \/ McmbtEnter \/ WorkerReturn \/ WorkerError \/ StarmapRaise
    \/ McmbtJoin \/ Done

SpecMcmbt == Init /\ [][NextMcmbt]_vars

\* a caller invokes generate_mi_report on features and a target of n rows
CallMi ==
    /\ op = "idle"
    /\ \E fr \in MiFrames, n_permutations \in -1..MiMaxPerms :
         \E scores \in MiTables(fr[1], fr[2], fr[3]) :
           Call("generate_mi_report",
                [features |-> fr[1], target |-> fr[2], n |-> fr[3],
                 scores |-> scores, n_permutations |-> n_permutations])

\* the locals of generate_mi_report
MiLocals(original, shifts, flat) ==
    [original_mi_scores |-> original, target_permutations |-> shifts,
     permuted_mi_scores |-> flat, first_error |-> "none"]

\* the report up to its starmap: the original scores, the cyclic
\* permutations of every target, which bcp refuses to allocate for a
\* negative n_permutations, and the dispatch of the tasks
MiEnter ==
    /\ op = "generate_mi_report" /\ pc = "called"
    /\ LET F == args.features
           T == args.target
           P == args.n_permutations
           original == MiOriginal(args.scores, F, T)
       IN IF P < 0
          THEN /\ pc' = "raised"
               /\ ret' = [raised |-> "ValueError", val |-> <<>>]
               /\ locals' = MiLocals(original, <<>>, <<>>)
               /\ UNCHANGED <<tasks, results>>
          ELSE \E shifts \in [1..T -> ShiftDraws(args.n, P)] :
                 /\ tasks' = MiTasks(shifts, F, T, P)
                 /\ results' = Dispatched(tasks')
                 /\ locals' = MiLocals(original, shifts, <<>>)
                 /\ pc' = "pool"
                 /\ UNCHANGED ret
    /\ UNCHANGED <<op, args, work>>
    /\ UNCHANGED mcpt_vars
    /\ UNCHANGED report_vars

\* starmap returns the list of scores: the reshape, the comparison with the
\* original scores, which numpy may refuse, the p-values and the print
MiJoin ==
    /\ op = "generate_mi_report" /\ pc = "pool"
    /\ AllReturned(results)
    /\ locals' = [locals EXCEPT !.permuted_mi_scores = Gathered(results)]
    /\ IF MiBroadcasts(args.features, args.target)
       THEN /\ printed' = MiLines(Gathered(results), locals.original_mi_scores,
                                  args.features, args.target, args.n_permutations)
            /\ pc' = "done"
            /\ ret' = [raised |-> "none", val |-> <<>>]
       ELSE /\ pc' = "raised"
            /\ ret' = [raised |-> "ValueError", val |-> <<>>]
            /\ UNCHANGED printed
    /\ UNCHANGED <<op, args, work, fi, ti, header_printed, tasks, results>>
    /\ UNCHANGED mcpt_vars

NextMi ==
    \/ CallMi \/ MiEnter \/ WorkerReturn \/ WorkerError \/ StarmapRaise
    \/ MiJoin \/ Done

SpecMi == Init /\ [][NextMi]_vars

\* the two reports that fan out to a pool, each called directly
NextPool ==
    \/ CallMcmbt \/ McmbtEnter \/ McmbtJoin
    \/ CallMi \/ MiEnter \/ MiJoin
    \/ WorkerReturn \/ WorkerError \/ StarmapRaise
    \/ Done

SpecPool == Init /\ [][NextPool]_vars

\* the same, where a starmap that holds an exception does raise it
FairPool == SpecPool /\ WF_vars(StarmapRaise)

(* ------------------------- properties: opt_thresh ---------------------- *)
ThreshReturned == op = "opt_thresh" /\ pc = "done"

\* the arrays in one of the orders np.argsort may return
SomeView(x, r) == CHOOSE v \in SortedViews(x, r) : TRUE

AtOrAbove(x, t) == {j \in 1..Len(x) : x[j] >= t}
Below(x, t) == {j \in 1..Len(x) : x[j] < t}
MinOf(x) == CHOOSE v \in {x[j] : j \in 1..Len(x)} : \A j \in 1..Len(x) : v <= x[j]

\* long profit factor of the cases whose predictor is at least t
LongPFAbove(x, r, t) == PF(WinOver(r, AtOrAbove(x, t)), LoseOver(r, AtOrAbove(x, t)))

\* the thresholds t the long side may consider with min_kept retained cases
LongCandidates(x, min_kept) ==
    {t \in {x[j] : j \in 1..Len(x)} :
        t # MinOf(x) /\ Cardinality(AtOrAbove(x, t)) >= min_kept}

GoldenCall ==
    /\ op = "opt_thresh"
    /\ pc \in {"done", "raised"}
    /\ args.predictor = GoldenPredictor
    /\ args.target = GoldenOutcome
    /\ PctInRange(PctInt(args.min_cases_percent))
    /\ MinKept(PctInt(args.min_cases_percent), Len(GoldenPredictor)) = 1

\* C1: on predictor [1,2,3,4,5] and outcome [1,-1,1,-1,1] with one retained
\* case at least, opt_thresh returns pf_all = 3/2, the long threshold 5 with
\* profit factor 1/(0 + 1e-30) (infinite by the > 1e20 convention) and the
\* short threshold 3 with profit factor exactly 1.
C1_Golden ==
    GoldenCall =>
        /\ ret.raised = "none"
        /\ ret.val.pf_all = [num |-> 3, den |-> 2]
        /\ ret.val.high_thresh = 5
        /\ ret.val.pf_high = [num |-> 1, den |-> 0]
        /\ Infinite(ret.val.pf_high)
        /\ ret.val.low_thresh = 3
        /\ ret.val.pf_low = [num |-> 1, den |-> 1]

C1_Witness == GoldenCall /\ ret.raised = "none" /\ work = <<"sum", "argsort", "sweep">>

\* C4: for a fixed predictor/outcome pair, a call with a larger minimum
\* retained count never returns a larger pf_high or pf_low than the call
\* with the smaller minimum.
C4_Monotone ==
    ThreshReturned =>
        LET x == args.predictor
            n == Len(x)
            m1 == MinKept(PctInt(args.min_cases_percent), n)
        IN \A p2 \in Percents :
             (PctInRange(PctInt(p2)) /\ m1 <= MinKept(PctInt(p2), n)) =>
                LET r2 == opt_thresh(PctInt(p2), x, args.target, SomeView(x, args.target)) IN
                  /\ PFGe(ret.val.pf_high, r2.val.pf_high)
                  /\ PFGe(ret.val.pf_low, r2.val.pf_low)

\* a call whose result a larger minimum strictly lowers on both sides
C4_Witness ==
    /\ ThreshReturned
    /\ \E p2 \in Percents :
         /\ PctInRange(PctInt(p2))
         /\ MinKept(PctInt(args.min_cases_percent), Len(args.predictor))
              < MinKept(PctInt(p2), Len(args.predictor))
         /\ LET r2 == opt_thresh(PctInt(p2), args.predictor, args.target,
                                 SomeView(args.predictor, args.target)) IN
              /\ PFGt(ret.val.pf_high, r2.val.pf_high)
              /\ PFGt(ret.val.pf_low, r2.val.pf_low)

\* C5: the long side starts from the whole set with profit factor pf_all:
\* pf_high >= pf_all always, and when no qualifying boundary has a strictly
\* larger profit factor the long result is (smallest predictor, pf_all).
C5_LongSeed ==
    ThreshReturned =>
        LET x == args.predictor
            r == args.target
            m == MinKept(PctInt(args.min_cases_percent), Len(x))
        IN /\ PFGe(ret.val.pf_high, ret.val.pf_all)
           /\ (\A t \in LongCandidates(x, m) :
                 ~PFGt(LongPFAbove(x, r, t), ret.val.pf_all))
                => /\ ret.val.high_thresh = MinOf(x)
                   /\ ret.val.pf_high = ret.val.pf_all

\* a call where boundaries qualify, none beats the whole set, and the whole
\* set is returned
C5_Witness ==
    /\ ThreshReturned
    /\ LongCandidates(args.predictor,
                      MinKept(PctInt(args.min_cases_percent), Len(args.predictor))) # {}
    /\ ret.val.pf_high = ret.val.pf_all
    /\ ret.val.high_thresh = MinOf(args.predictor)
    /\ ret.val.pf_all.num > 0

(* ------------------ properties: generate_threshold_table --------------- *)
TableReturned == op = "generate_threshold_table" /\ pc = "done"

\* C6: in every row of the table frac_gtr_eq + frac_less = 1: the two are
\* (n - k) / n and k / n for the same split index k.  (The sum of these two
\* doubles is exactly 1.0 for every n below 3000.)
C6_Complementary ==
    TableReturned =>
        \A i \in 1..Len(ret.val) :
            LET row == ret.val[i]
                n == Len(args.signal_vals)
            IN /\ row.frac_gtr_eq.den = n
               /\ row.frac_less.den = n
               /\ row.frac_gtr_eq.num + row.frac_less.num = n
               /\ row.frac_less.num = row.k

\* a table with two rows of different splits
C6_Witness ==
    /\ TableReturned
    /\ Len(ret.val) >= 2
    /\ \E i, j \in 1..Len(ret.val) : ret.val[i].k # ret.val[j].k

(* --------------------------- properties: bcp --------------------------- *)
BcpReturned == op = "bcp" /\ pc = "done"

Count(x, v) == Cardinality({j \in 1..Len(x) : x[j] = v})

\* row is target moved round by s places
IsShiftOf(row, target, s) ==
    LET n == Len(target) IN
    /\ Len(row) = n
    /\ \A j \in 0..(n - 1) : row[((j + s) % n) + 1] = target[j + 1]

\* C7: bcp(target, k) returns exactly k rows of length n, every row a
\* circular shift of target by some s in [0, n), hence a permutation of the
\* same multiset of values.
C7_Rotation ==
    BcpReturned =>
        LET t == args.target
            n == Len(t)
        IN /\ Len(ret.val) = args.n_permutations
           /\ \A i \in 1..Len(ret.val) :
                /\ \E s \in 0..(n - 1) : IsShiftOf(ret.val[i], t, s)
                /\ \A v \in OutcomeVals : Count(ret.val[i], v) = Count(t, v)

\* two rows of a series of three different values, one moved by one place
\* and one by two
C7_Witness ==
    /\ BcpReturned
    /\ Len(args.target) = 3
    /\ Cardinality({args.target[j] : j \in 1..3}) = 3
    /\ Len(ret.val) = 2
    /\ IsShiftOf(ret.val[1], args.target, 1)
    /\ IsShiftOf(ret.val[2], args.target, 2)

(* -------------------------- properties: u_test ------------------------- *)
UTestReturned == op = "u_test" /\ pc = "done"

TieFree(x1, x2) == Cardinality({(x1 \o x2)[j] : j \in 1..Len(x1 \o x2)}) = Len(x1 \o x2)

GoldenUTest ==
    /\ op = "u_test"
    /\ pc \in {"done", "raised"}
    /\ args.x1 = <<1, 2, 3>>
    /\ args.x2 = <<4, 5, 6>>

\* |a| >= |b| for two finite z-scores: a^2 >= b^2, cross-multiplied
AbsZGe(a, b) ==
    a.num2 * a.num2 * a.d * b.v >= b.num2 * b.num2 * b.d * a.v

ZOf(x1, x2) ==
    u_test(Len(x1), x1, Len(x2), x2,
           CHOOSE v \in SortedViews(x1 \o x2, GroupOf(Len(x1), Len(x2))) : TRUE).val.z

\* the z of the call is as far from 0 as that of any 3 + 3 samples without ties
LargestAbsZ == \A xs \in TieFree33 : AbsZGe(ret.val.z, ZOf(xs[1], xs[2]))

\* C2 as stated: u_test(3, [1,2,3], 3, [4,5,6]) returns U = 0, and |z| is
\* the largest over the tie-free inputs with n1 = n2 = 3.
C2_Original ==
    GoldenUTest => /\ pc = "done"
                   /\ ret.val.U = [num |-> 0, den |-> 1]
                   /\ LargestAbsZ

\* C2, amended: u_test(3, [1,2,3], 3, [4,5,6]) returns U = n1 * n2 = 9 and a
\* negative z (group 1 holds the three smallest ranks, R = 6), and |z| is
\* the largest over the tie-free inputs with n1 = n2 = 3.
C2_Amended ==
    GoldenUTest => /\ pc = "done"
                   /\ ret.val.U = [num |-> 9, den |-> 1]
                   /\ ret.val.z.kind = "finite"
                   /\ ret.val.z.num2 < 0
                   /\ ret.val.tie_correction = 0
                   /\ LargestAbsZ

C2_Witness ==
    /\ GoldenUTest
    /\ pc = "done"
    /\ work = <<"argsort", "rank">>
    /\ \E xs \in TieFree33 : ~AbsZGe(ZOf(xs[1], xs[2]), ret.val.z)

(* --------------------------- properties: opt_MCPT ---------------------- *)
MCPTReturned == op = "opt_MCPT" /\ pc = "done"
MCPTRaised == op = "opt_MCPT" /\ pc = "raised"

\* how many permutation trials the call has run
Shuffled == Cardinality({j \in 1..Len(work) : work[j] = "shuffle"})

\* the p-value 1.0
PValOne == [nan |-> FALSE, num |-> 1, den |-> 1]

\* the signal opt_MCPT works on
FlippedSignal == IF args.flip_sign THEN Negate(args.signal_vals) ELSE args.signal_vals

\* the five baseline fields of a result are those of r
SameBaseline(v, r) ==
    /\ v.pf_all = r.pf_all
    /\ v.high_thresh = r.high_thresh
    /\ v.pf_high = r.pf_high
    /\ v.low_thresh = r.low_thresh
    /\ v.pf_low = r.pf_low

\* C3: permutation identity.  A call of opt_MCPT with nreps = 1 that returns
\* has run no permutation trial, and its three p-values are exactly 1.0.
C3_PermutationIdentity ==
    (MCPTReturned /\ args.nreps = 1) =>
        /\ Shuffled = 0
        /\ work_permute = args.returns
        /\ ret.val.pval_long = PValOne
        /\ ret.val.pval_short = PValOne
        /\ ret.val.pval_best = PValOne

\* a three-case call with nreps = 1 and more than one case kept, returned
C3_Witness ==
    /\ MCPTReturned
    /\ args.nreps = 1
    /\ Len(args.signal_vals) = 3
    /\ args.min_kept = 3
    /\ ret.val.pval_best = PValOne

\* C8: with nreps = 0 opt_MCPT does not raise on otherwise valid arguments,
\* runs no permutation trial, returns the baseline of the unpermuted data and
\* returns the three p-values as NaN.
C8_NoRepetitions ==
    (op = "opt_MCPT" /\ pc # "called" /\ args.nreps = 0
       /\ Len(args.signal_vals) = Len(args.returns) /\ Len(args.signal_vals) >= 1
       /\ 0 <= args.min_kept /\ args.min_kept <= Len(args.signal_vals)) =>
        /\ pc # "raised"
        /\ Shuffled = 0
        /\ pc = "done" =>
             /\ \E sorted \in SortedViews(FlippedSignal, args.returns) :
                  SameBaseline(ret.val, mcpt_opt_thresh(FlippedSignal, args.min_kept,
                                                        args.returns, sorted).val)
             /\ ret.val.pval_long.nan
             /\ ret.val.pval_short.nan
             /\ ret.val.pval_best.nan

\* a call with nreps = 0 on a flipped signal that returned a baseline whose
\* long side beats the whole set
C8_Witness ==
    /\ MCPTReturned
    /\ args.nreps = 0
    /\ args.flip_sign
    /\ PFGt(ret.val.pf_high, ret.val.pf_all)
    /\ ret.val.pval_long.nan

\* the claim as stated: for n >= 1, min_kept <= 0 or min_kept > n makes
\* opt_MCPT raise ValueError
C10_Original ==
    (op = "opt_MCPT" /\ pc # "called" /\ Len(args.signal_vals) >= 1
       /\ (args.min_kept <= 0 \/ args.min_kept > Len(args.signal_vals))) =>
        /\ pc = "raised"
        /\ ret.raised = "ValueError"

\* C10: for n >= 1, opt_MCPT raises ValueError when min_kept < 0 or
\* min_kept > n.  min_kept = 0 is a percentage of 0, which is in range: with
\* otherwise valid arguments the call does not raise, and its baseline is the
\* one of min_kept = 1.
C10_MinKeptRange ==
    (op = "opt_MCPT" /\ pc # "called" /\ Len(args.signal_vals) >= 1) =>
        /\ (args.min_kept < 0 \/ args.min_kept > Len(args.signal_vals))
             => (pc = "raised" /\ ret.raised = "ValueError")
        /\ (args.min_kept = 0 /\ args.nreps >= 0
              /\ Len(args.signal_vals) = Len(args.returns))
             => /\ pc # "raised"
                /\ pc = "done" =>
                     \E sorted \in SortedViews(FlippedSignal, args.returns) :
                        SameBaseline(ret.val, mcpt_opt_thresh(FlippedSignal, 1,
                                                              args.returns, sorted).val)

\* a call with equal lengths, nreps >= 0 and min_kept = n + 1, rejected
C10_Witness ==
    /\ MCPTRaised
    /\ ret.raised = "ValueError"
    /\ Len(args.signal_vals) >= 1
    /\ Len(args.signal_vals) = Len(args.returns)
    /\ args.nreps >= 0
    /\ args.min_kept = Len(args.signal_vals) + 1

(* ----------------------- properties: argument checks ------------------- *)
\* the call was rejected with ValueError before any work was done
RejectedEarly == pc = "raised" /\ ret.raised = "ValueError" /\ work = <<>>

\* C9: eager argument validation.  opt_thresh with a percentage outside
\* [0, 100] or arrays of different lengths, opt_MCPT with a negative nreps or
\* arrays of different lengths, and generate_threshold_table and
\* generate_threshold_report with a bin count other than 13 or 27 raise
\* ValueError before any sum, sort, copy, shuffle or printed line, and never
\* go on with a corrected argument.
C9_EagerValidation ==
    /\ (op = "opt_thresh" /\ pc # "called"
          /\ (~(0 <= args.min_cases_percent /\ args.min_cases_percent <= 100)
                \/ Len(args.predictor) # Len(args.target)))
         => RejectedEarly
    /\ (op = "opt_MCPT" /\ pc # "called"
          /\ (args.nreps < 0 \/ Len(args.signal_vals) # Len(args.returns)))
         => /\ RejectedEarly
            /\ work_permute = <<>>
            /\ long_count = 0 /\ short_count = 0 /\ best_count = 0
    /\ (op = "generate_threshold_table" /\ pc # "called"
          /\ args.bin_count \notin {13, 27})
         => RejectedEarly
    /\ (op = "generate_threshold_report" /\ pc # "called"
          /\ args.bins \notin {13, 27})
         => /\ RejectedEarly
            /\ printed = <<>>
            /\ ~header_printed

\* opt_thresh rejected a call with a valid percentage and a target longer
\* than the predictor
C9_Witness ==
    /\ op = "opt_thresh" /\ RejectedEarly
    /\ args.min_cases_percent = 34
    /\ Len(args.predictor) = 2
    /\ Len(args.target) = 3

(* ------------- properties: generate_threshold_table, lengths ----------- *)
\* C11: generate_threshold_table called with signal_vals and returns of
\* different lengths raises ValueError before it sorts, and never returns a
\* table.
C11_TableLengths ==
    (op = "generate_threshold_table" /\ pc # "called"
       /\ Len(args.signal_vals) # Len(args.returns))
      => RejectedEarly

(* -------------------- properties: opt_thresh, fallbacks ---------------- *)
MaxOf(x) == CHOOSE v \in {x[j] : j \in 1..Len(x)} : \A j \in 1..Len(x) : v >= x[j]

\* short profit factor of the cases whose predictor is below t
ShortPFBelow(x, r, t) == PF(LoseOver(r, Below(x, t)), WinOver(r, Below(x, t)))

\* the thresholds t the short side may consider with min_kept retained cases
ShortCandidates(x, min_kept) ==
    {t \in {x[j] : j \in 1..Len(x)} :
        t # MinOf(x) /\ Cardinality(Below(x, t)) >= min_kept}

\* a call of opt_thresh on at least one case that passes the argument checks
ThreshValidCall ==
    /\ op = "opt_thresh" /\ pc # "called"
    /\ PctInRange(PctInt(args.min_cases_percent))
    /\ Len(args.predictor) = Len(args.target)
    /\ Len(args.predictor) >= 1

PFMaxOf(S) == CHOOSE a \in S : \A b \in S : PFGe(a, b)

\* the best long and short profit factors by exhaustive search over the
\* thresholds, on the unsorted arrays
BruteHigh(x, r, m) ==
    PFMaxOf({PF(SumWin(r, Len(r)), SumLose(r, Len(r)))}
              \cup {LongPFAbove(x, r, t) : t \in LongCandidates(x, m)})
BruteLow(x, r, m) ==
    IF ShortCandidates(x, m) = {} THEN MinusOne
    ELSE PFMaxOf({ShortPFBelow(x, r, t) : t \in ShortCandidates(x, m)})

\* the minimum opt_thresh derives from the percentage opt_MCPT hands it
McptMinKept == MinKept(PctRatio(args.min_kept, Len(args.signal_vals)),
                       Len(args.signal_vals))

\* 1 if a holds, else 0
Ind(a) == IF a THEN 1 ELSE 0

\* p is the double count / nreps, and 1 / nreps <= p <= 1
IsPValOf(p, count, nreps) ==
    /\ ~p.nan
    /\ p.num * nreps = count * p.den
    /\ p.den <= p.num * nreps
    /\ p.num <= p.den

\* the counts between 1 and the number of trials done plus one
CountsInRange ==
    (op = "opt_MCPT" /\ pc \in {"loop", "done"} /\ args.nreps >= 1) =>
        /\ 1 <= long_count /\ long_count <= irep
        /\ 1 <= short_count /\ short_count <= irep
        /\ 1 <= best_count /\ best_count <= irep
        /\ irep <= args.nreps
        /\ pc = "done" =>
             /\ irep = args.nreps
             /\ IsPValOf(ret.val.pval_long, long_count, args.nreps)
             /\ IsPValOf(ret.val.pval_short, short_count, args.nreps)
             /\ IsPValOf(ret.val.pval_best, best_count, args.nreps)

\* the baseline sets every count to 1
CountsStart ==
    (op = "opt_MCPT" /\ pc = "called" /\ pc' = "loop") =>
        long_count' = 1 /\ short_count' = 1 /\ best_count' = 1

\* a trial adds 1 to a count exactly when its statistic, found by exhaustive
\* search on the shuffled outcomes, is at least the baseline's
CountsStep ==
    (op = "opt_MCPT" /\ pc = "loop" /\ irep' = irep + 1) =>
        LET high == BruteHigh(signal_loc, work_permute', McptMinKept)
            low == BruteLow(signal_loc, work_permute', McptMinKept)
        IN /\ long_count' = long_count + Ind(PFGe(high, base.pf_high))
           /\ short_count' = short_count + Ind(PFGe(low, base.pf_low))
           /\ best_count' = best_count
                + Ind(PFGe(PFMax(high, low), PFMax(base.pf_high, base.pf_low)))

\* C13: in opt_MCPT with nreps >= 1 the three counts start at 1, a trial
\* adds 1 to a count exactly when the trial's statistic is >= the baseline's
\* and nothing otherwise, so after t trials 1 <= count <= t + 1; each
\* returned p-value is count / nreps and lies in [1 / nreps, 1].
C13_Counting == []CountsInRange /\ [][CountsStart /\ CountsStep]_vars

\* a call returned after three trials with a long count raised by some
\* trials and not by others, and a short count never raised
C13_Witness ==
    /\ MCPTReturned
    /\ args.nreps = 3
    /\ long_count = 2
    /\ short_count = 1
    /\ ret.val.pval_long = [nan |-> FALSE, num |-> 2, den |-> 3]

(* --------------------- properties: generate_mcmbt_report --------------- *)
McmbtReported ==
    op = "generate_mcmbt_report" /\ pc = "done" /\ Len(args.data) > 0

\* the statistics the break test may return for one series under the
\* arguments of the call
BreakStats(values) ==
    {r.val : r \in compute_serial_correlated_break(values, Len(values),
                     args.min_recent, args.max_recent, args.lag)}

\* p is the double count / n, and nan when n = 0
IsFraction(p, count, n) ==
    IF n = 0 THEN p.nan ELSE ~p.nan /\ p.num * n = count * p.den

\* the trials counted for indicator idx, and those counted for all of them
SoloTrials(idx) ==
    {i \in 1..Len(locals.permuted_max_crits) :
       CritGe(locals.permuted_max_crits[i][idx], locals.original[idx].max_crit)}

GlobalTrials ==
    {i \in 1..Len(locals.permuted_max_crits) :
       \E k \in 1..Len(args.data) : \A j \in 1..Len(args.data) :
          CritGe(locals.permuted_max_crits[i][k], locals.original[j].max_crit)}

\* the indicators whose original statistic is the largest
TopIndicators ==
    {a \in 1..Len(args.data) : \A j \in 1..Len(args.data) :
       CritGe(locals.original[a].max_crit, locals.original[j].max_crit)}

\* the p-values of a finished report, as they are printed
McmbtPValues ==
    McmbtReported =>
      LET n_vars == Len(args.data)
          unbiased == locals.unbiased_p_value[1]
      IN /\ Len(locals.permuted_max_crits) = args.n_permutations
         /\ \A idx \in 1..n_vars :
              /\ IsFraction(locals.solo_p_values[idx], Cardinality(SoloTrials(idx)),
                            args.n_permutations)
              /\ printed[idx + 1].val.solo = locals.solo_p_values[idx]
              /\ printed[idx + 1].val.unbiased
                   = IF n_vars > 1 THEN <<unbiased>> ELSE <<>>
         /\ IF n_vars > 1
            THEN IsFraction(unbiased, Cardinality(GlobalTrials), args.n_permutations)
            ELSE unbiased.nan
         /\ (n_vars > 1 /\ args.n_permutations > 0) =>
              \A a \in TopIndicators :
                 unbiased.num * locals.solo_p_values[a].den
                   >= locals.solo_p_values[a].num * unbiased.den

\* starmap has returned the statistics of the original series
OriginalsJoined ==
    /\ op = "generate_mcmbt_report" /\ pc = "pool"
    /\ locals.stage = "original" /\ locals'.stage # "original"

\* starmap has returned the statistics of a trial
TrialJoined ==
    /\ op = "generate_mcmbt_report" /\ pc = "pool"
    /\ locals.stage = "permuted"
    /\ Len(locals'.permuted_max_crits) = Len(locals.permuted_max_crits) + 1

\* every original statistic is that of the indicator's own series, and every
\* statistic of a trial is that of a shuffle of the indicator's own series
McmbtOwnSeries ==
    /\ OriginalsJoined =>
         \A k \in 1..Len(args.data) : locals'.original[k] \in BreakStats(args.data[k])
    /\ TrialJoined =>
         LET row == locals'.permuted_max_crits[Len(locals'.permuted_max_crits)] IN
         \A k \in 1..Len(args.data) :
            /\ tasks[k].values \in Shuffles(args.data[k])
            /\ row[k] \in {b.max_crit : b \in BreakStats(tasks[k].values)}
            /\ locals'.original = locals.original
            /\ SubSeq(locals'.permuted_max_crits, 1, Len(locals.permuted_max_crits))
                 = locals.permuted_max_crits

\* C15: in generate_mcmbt_report the solo p-value of an indicator is the
\* fraction of the trials whose statistic on a shuffle of the indicator's own
\* series is at least its original statistic; with several indicators the
\* unbiased p-value is the fraction of the trials whose largest statistic is
\* at least the largest original one, and it is nan for a single indicator;
\* the unbiased p-value is at least the solo p-value of an indicator with
\* the largest original statistic.  Without a trial every fraction is nan.
C15_PValues == []McmbtPValues /\ [][McmbtOwnSeries]_vars

\* two indicators and two trials; one trial reaches the original statistic
\* of the top indicator, and the unbiased p-value is above its solo p-value
C15_Witness ==
    /\ McmbtReported
    /\ Len(args.data) = 2 /\ args.n_permutations = 2
    /\ \E a \in TopIndicators :
         /\ Cardinality(SoloTrials(a)) = 1
         /\ Cardinality(GlobalTrials) = 2

(* ---------------------- properties: generate_mi_report ----------------- *)
MiReported == op = "generate_mi_report" /\ pc = "done"

\* the permutations of target t whose score with feature f is at least the
\* original score of f and t
MiOwnHits(f, t) ==
    {p \in 1..args.n_permutations :
       mutual_info(args.scores, f, t, locals.target_permutations[t][p])
         >= mutual_info(args.scores, f, t, 0)}

\* the row printed for feature f and target t
MiRow(f, t) == printed[(f - 1) * args.target + t + 1].val

\* C14: in generate_mi_report the solo p-value reported for a feature (and
\* target) is the fraction of the permuted targets whose score with that
\* feature is at least the original score of that feature, and the unbiased
\* p-value is (that count + 1) / (n_permutations + 1), for any number of
\* features.
C14_OwnBaseline ==
    MiReported =>
      \A f \in 1..args.features, t \in 1..args.target :
         /\ IsFraction(MiRow(f, t).solo, Cardinality(MiOwnHits(f, t)),
                       args.n_permutations)
         /\ MiRow(f, t).unbiased.num * (args.n_permutations + 1)
              = (Cardinality(MiOwnHits(f, t)) + 1) * MiRow(f, t).unbiased.den

(* --------------------------- properties: the pool ---------------------- *)
PoolRunning == PoolReport /\ pc = "pool"

\* while a starmap is out, nothing is printed and no p-value exists
NothingBeforeJoin ==
    PoolRunning =>
      /\ printed = <<>>
      /\ op = "generate_mcmbt_report" =>
           locals.solo_p_values = <<>> /\ locals.unbiased_p_value = <<>>
      /\ op = "generate_mi_report" => locals.permuted_mi_scores = <<>>

\* the step that computes the p-values is taken with every task of the
\* starmap returned, and in the break test report with every trial done
JoinBarrier ==
    (PoolRunning /\ pc' = "done") =>
      /\ AllReturned(results)
      /\ op = "generate_mcmbt_report" =>
           Len(locals'.permuted_max_crits) = args.n_permutations

\* what a task returns is fixed by its arguments
OneOutcome ==
    PoolRunning => \A k \in 1..Len(tasks) : Cardinality(TaskOutcomes(tasks[k])) = 1

\* a worker's result is kept at the position of the task it ran
KeptByPosition ==
    (PoolRunning /\ pc' = "pool" /\ tasks' = tasks) =>
      \A k \in 1..Len(tasks) :
         (results'[k].status = "ok" /\ results[k].status # "ok") =>
            /\ results[k].status = "running"
            /\ results'[k].val[1] \in {r.val : r \in TaskOutcomes(tasks[k])}

\* the break test report reads the k-th result as that of the k-th
\* indicator, which is the series the k-th task was given
McmbtByPosition ==
    /\ OriginalsJoined =>
         \A k \in 1..Len(args.data) :
            tasks[k].values = args.data[k] /\ locals'.original[k] = results[k].val[1]
    /\ TrialJoined =>
         \A k \in 1..Len(args.data) :
            /\ tasks[k].values \in Shuffles(args.data[k])
            /\ locals'.permuted_max_crits[Len(locals'.permuted_max_crits)][k]
                 = results[k].val[1].max_crit

\* the finished reports are those computed from the arguments of the
\* tasks, whatever the order in which the workers ended
SameForEveryOrder ==
    /\ McmbtReported =>
         LET crits == [k \in 1..Len(args.data) |-> locals.original[k].max_crit] IN
         printed = McmbtLines(locals.original,
                              [idx \in 1..Len(args.data) |->
                                  McmbtSolo(locals.permuted_max_crits, crits, idx)],
                              McmbtUnbiased(locals.permuted_max_crits, crits))
    /\ MiReported =>
         printed = MiLines([k \in 1..Len(tasks) |->
                              mutual_info(args.scores, tasks[k].feature,
                                          tasks[k].target, tasks[k].shift)],
                           locals.original_mi_scores, args.features, args.target,
                           args.n_permutations)

\* the mutual information report counts, for feature f, target t and
\* permutation p, the score of the task that was given f and the p-th
\* permutation of t
MiByPosition ==
    MiReported =>
      \A f \in 1..args.features, t \in 1..args.target, p \in 1..args.n_permutations :
         MiReshaped(locals.permuted_mi_scores, args.target, args.n_permutations, f, t, p)
           = mutual_info(args.scores, f, t, locals.target_permutations[t][p])

\* the join barrier and the independence of the completion order alone
PoolOrderIndependence ==
    /\ [](NothingBeforeJoin /\ OneOutcome /\ SameForEveryOrder)
    /\ [][JoinBarrier /\ KeptByPosition /\ McmbtByPosition]_vars

\* C16: in the pools of generate_mcmbt_report and generate_mi_report no
\* p-value is computed until every dispatched task has returned, each
\* task's result is attributed to its indicator and trial by its position
\* in the dispatch, and the p-values are the same under every interleaving
\* and completion order of the workers.
C16_JoinBarrier ==
    /\ [](NothingBeforeJoin /\ OneOutcome /\ SameForEveryOrder /\ MiByPosition)
    /\ [][JoinBarrier /\ KeptByPosition /\ McmbtByPosition]_vars

\* a task of the call has raised
TaskRaised == PoolReport /\ pc # "called" /\ locals # NoLocals /\ locals.first_error # "none"

\* after a task has raised the call is still out or has raised, and it has
\* printed nothing and computed no p-value
NothingAfterFailure ==
    TaskRaised =>
      /\ pc \in {"pool", "raised"}
      /\ printed = <<>>
      /\ op = "generate_mcmbt_report" =>
           locals.solo_p_values = <<>> /\ locals.unbiased_p_value = <<>>
      /\ op = "generate_mi_report" => locals.permuted_mi_scores = <<>>

\* after a task has raised the call ends only by raising the first
\* exception, and no further starmap is dispatched
OnlyRaises ==
    (TaskRaised /\ pc = "pool") =>
      /\ tasks' = tasks
      /\ pc' # "pool" => (pc' = "raised" /\ ret'.raised = locals.first_error)

\* C17: if any dispatched task of generate_mcmbt_report or of
\* generate_mi_report raises, the report goes on to raise that exception, and no
\* p-value and no row is computed or printed from the results of the other
\* tasks.
C17_FailureIsFatal ==
    /\ []NothingAfterFailure
    /\ [][OnlyRaises]_vars
    /\ (TaskRaised ~> (PoolReport /\ pc = "raised"))

\* one task has raised and another has returned its result; the report has
\* raised and printed nothing
C17_Witness ==
    /\ PoolReport /\ pc = "raised"
    /\ \E j, k \in 1..Len(results) :
         results[j].status = "raised" /\ results[k].status = "ok"
    /\ ret.raised = locals.first_error
    /\ printed = <<>>

(* ----------------------- properties: profit factors -------------------- *)
\* v is the table's value for a over b: infinity exactly for b = 0, and the
\* ratio a / b otherwise
IsTableRatio(v, a, b) ==
    /\ v.inf <=> b = 0
    /\ ~v.inf => v.num * b = a * v.den

\* v is the double a / (b + 1e-30), which is not an infinity, and it is
\* above 1e20 exactly for b = 0 and a > 0
IsEpsilonRatio(v, a, b) ==
    /\ b > 0 => (v.den > 0 /\ v.num * b = a * v.den)
    /\ b = 0 => (v.den = 0 /\ v.num = a)
    /\ Infinite(v) <=> (b = 0 /\ a > 0)

\* the four profit factors of every row of a table, against the sums of the
\* gains and of the losses on each side of the row's threshold
TableConvention ==
    TableReturned =>
      \A i \in 1..Len(ret.val) :
         LET row == ret.val[i]
             above == AtOrAbove(args.signal_vals, row.threshold)
             below == Below(args.signal_vals, row.threshold)
             gain_above == WinOver(args.returns, above)
             loss_above == LoseOver(args.returns, above)
             gain_below == WinOver(args.returns, below)
             loss_below == LoseOver(args.returns, below)
         IN /\ IsTableRatio(row.long_pf_above, gain_above, loss_above)
            /\ IsTableRatio(row.short_pf_above, loss_above, gain_above)
            /\ IsTableRatio(row.short_pf_below, loss_below, gain_below)
            /\ IsTableRatio(row.long_pf_below, gain_below, loss_below)

\* the three profit factors of opt_thresh, against the same sums; the -1.0
\* of a short side without a candidate is not a profit factor
ThreshConvention ==
    ThreshReturned =>
      LET x == args.predictor
          r == args.target
          all == 1..Len(x)
          high == AtOrAbove(x, ret.val.high_thresh)
          low == Below(x, ret.val.low_thresh)
      IN /\ IsEpsilonRatio(ret.val.pf_all, WinOver(r, all), LoseOver(r, all))
         /\ IsEpsilonRatio(ret.val.pf_high, WinOver(r, high), LoseOver(r, high))
         /\ ret.val.pf_low # MinusOne =>
              IsEpsilonRatio(ret.val.pf_low, LoseOver(r, low), WinOver(r, low))

\* C18: in generate_threshold_table each of the four profit factors of a
\* row is infinity exactly when its denominator sum is zero, also with a
\* zero numerator, and the plain ratio otherwise; opt_thresh never returns
\* infinity: its profit factors are the finite win / (loss + 1e-30), above
\* 1e20 exactly when the loss sum is zero and the win sum is positive.
C18_ZeroDenominator == TableConvention /\ ThreshConvention

\* a row of a table with an infinite profit factor from 0 over 0, next to a
\* finite one
C18_Witness ==
    /\ TableReturned
    /\ \E i \in 1..Len(ret.val) :
         LET row == ret.val[i]
             above == AtOrAbove(args.signal_vals, row.threshold)
         IN /\ row.long_pf_above.inf
            /\ WinOver(args.returns, above) = 0
            /\ ~row.short_pf_below.inf

(* ------------------ properties: opt_thresh against a search ------------ *)
\* the minimum number of cases the call derives from its percentage
ThreshMinKept == MinKept(PctInt(args.min_cases_percent), Len(args.predictor))

\* the smallest value of a non-empty set of predictor values
Smallest(S) == CHOOSE t \in S : \A u \in S : t <= u

\* the long thresholds that attain pf: the smallest predictor value, which
\* keeps the whole set, if pf is pf_all, and every candidate whose profit
\* factor is pf
LongAttaining(x, r, m, pf) ==
    {t \in LongCandidates(x, m) : PFEq(LongPFAbove(x, r, t), pf)}
      \cup (IF PFEq(PF(SumWin(r, Len(r)), SumLose(r, Len(r))), pf)
            THEN {MinOf(x)} ELSE {})

ShortAttaining(x, r, m, pf) ==
    {t \in ShortCandidates(x, m) : PFEq(ShortPFBelow(x, r, t), pf)}

\* C19: the sweep of opt_thresh agrees with an exhaustive search: pf_high is
\* the largest of pf_all and the long profit factors of the cases at or
\* above t, over the distinct predictor values t other than the smallest
\* that keep min_kept cases at or above; pf_low is the largest short profit
\* factor of the cases below t over those t that keep min_kept cases below
\* (and -1 when there is none); on each side the threshold returned is the
\* smallest t that attains the maximum.
C19_BruteForce ==
    ThreshReturned =>
      LET x == args.predictor
          r == args.target
          m == ThreshMinKept
      IN /\ PFEq(ret.val.pf_high, BruteHigh(x, r, m))
         /\ PFEq(ret.val.pf_low, BruteLow(x, r, m))
         /\ ret.val.high_thresh = Smallest(LongAttaining(x, r, m, ret.val.pf_high))
         /\ ShortCandidates(x, m) # {} =>
              ret.val.low_thresh = Smallest(ShortAttaining(x, r, m, ret.val.pf_low))

\* two thresholds attain the best long profit factor, which is above
\* pf_all, and two attain the best short one; the smaller is returned
C19_Witness ==
    /\ ThreshReturned
    /\ PFGt(ret.val.pf_high, ret.val.pf_all)
    /\ Cardinality(LongAttaining(args.predictor, args.target, ThreshMinKept,
                                 ret.val.pf_high)) >= 2
    /\ Cardinality(ShortAttaining(args.predictor, args.target, ThreshMinKept,
                                  ret.val.pf_low)) >= 2
    /\ ret.val.high_thresh = 2

(* ------------------ properties: thresholds on value boundaries --------- *)
\* the positions that hold the value t
Tied(x, t) == {j \in 1..Len(x) : x[j] = t}

\* t is a value of the predictor with a smaller value before it: the place
\* where a sorted copy of x steps up to t
OnBoundary(x, t) == Tied(x, t) # {} /\ Below(x, t) # {}

\* C20: a threshold opt_thresh returns is a value of the predictor; at least
\* min_kept cases are at or above high_thresh (all n of them when the
\* whole set stayed best), and when pf_low is not -1 at least min_kept cases
\* are below low_thresh, which is a value the sorted predictor steps up to.
\* Tied cases are never split: the profit factor returned for a side is that
\* of exactly the cases on that side of the threshold.
C20_Boundaries ==
    ThreshReturned =>
      LET x == args.predictor
          r == args.target
          v == ret.val
      IN /\ Tied(x, v.high_thresh) # {}
         /\ Cardinality(AtOrAbove(x, v.high_thresh)) >= ThreshMinKept
         /\ v.high_thresh = MinOf(x) =>
              Cardinality(AtOrAbove(x, v.high_thresh)) = Len(x)
         /\ v.high_thresh # MinOf(x) => OnBoundary(x, v.high_thresh)
         /\ PFEq(v.pf_high, LongPFAbove(x, r, v.high_thresh))
         /\ v.pf_low # MinusOne =>
              /\ Cardinality(Below(x, v.low_thresh)) >= ThreshMinKept
              /\ OnBoundary(x, v.low_thresh)
              /\ PFEq(v.pf_low, ShortPFBelow(x, r, v.low_thresh))

\* both sides found a threshold above the smallest value, several cases
\* share the threshold values, and the short side keeps exactly min_kept
\* cases below
C20_Witness ==
    /\ ThreshReturned
    /\ ret.val.pf_low # MinusOne
    /\ ret.val.high_thresh # MinOf(args.predictor)
    /\ Cardinality(Tied(args.predictor, ret.val.high_thresh)) >= 2
    /\ Cardinality(Tied(args.predictor, ret.val.low_thresh)) >= 2
    /\ Cardinality(Below(args.predictor, ret.val.low_thresh)) = ThreshMinKept

(* ------------------ properties: rows of the threshold table ------------ *)
\* row is the row of the threshold t for the signal x and the returns r:
\* the fractions and the four sums are those of the samples at or above t
\* and of the samples below t
RowOfThreshold(row, x, r, t) ==
    LET n == Len(x)
        above == AtOrAbove(x, t)
        below == Below(x, t)
    IN /\ row.threshold = t
       /\ row.frac_gtr_eq = [num |-> Cardinality(above), den |-> n]
       /\ row.frac_less = [num |-> Cardinality(below), den |-> n]
       /\ row.long_pf_above = TablePF(WinOver(r, above), LoseOver(r, above))
       /\ row.short_pf_above = TablePF(LoseOver(r, above), WinOver(r, above))
       /\ row.short_pf_below = TablePF(LoseOver(r, below), WinOver(r, below))
       /\ row.long_pf_below = TablePF(WinOver(r, below), LoseOver(r, below))

MCPTRunning == op = "opt_MCPT" /\ pc \in {"loop", "done"}

\* the signal opt_MCPT works on: the caller's, negated under flip_sign
McptSignalOf(a) == IF a.flip_sign THEN Negate(a.signal_vals) ELSE a.signal_vals

SameMultiset(x, y) ==
    /\ Len(x) = Len(y)
    /\ \A v \in {x[j] : j \in 1..Len(x)} \cup {y[j] : j \in 1..Len(y)} :
         Count(x, v) = Count(y, v)

\* the baseline is what opt_thresh returns for the caller's returns in their
\* own order; every trial works on the same signal and on a rearrangement of
\* the caller's returns, whose pf_all is the baseline's
PrivateCopy ==
    MCPTRunning =>
      /\ signal_loc = McptSignalOf(args)
      /\ \E sorted \in SortedViews(McptSignalOf(args), args.returns) :
           base = mcpt_opt_thresh(McptSignalOf(args), args.min_kept,
                                  args.returns, sorted).val
      /\ SameMultiset(work_permute, args.returns)
      /\ \A sorted \in SortedViews(signal_loc, work_permute) :
           mcpt_opt_thresh(signal_loc, args.min_kept, work_permute,
                           sorted).val.pf_all = base.pf_all

\* no step of a call changes the arrays the caller passed
CallerArraysKept == (op = "opt_MCPT" /\ op' = "opt_MCPT") => args' = args

MidRank2(c, v) == 2 * Cardinality(Below(c, v)) + Cardinality(Tied(c, v)) + 1

\* the sum of f over the set S
RECURSIVE SumOver(_, _)
SumOver(f, S) ==
    IF S = {} THEN 0
    ELSE LET j == CHOOSE x \in S : TRUE IN f[j] + SumOver(f, S \ {j})

\* t^3 - t summed over the blocks of equal values of c
TieTerm(c) ==
    LET vals == {c[j] : j \in 1..Len(c)}
        cube == [v \in vals |-> LET t == Cardinality(Tied(c, v)) IN t * t * t - t]
    IN SumOver(cube, vals)

\* C23: in the sorted concatenation every member of a block of t equal
\* values at positions s+1..s+t has rank s + (t + 1) / 2; tie_correction is
\* the sum of t^3 - t over the blocks (0 without ties); the ranks sum to
\* N(N+1)/2; U = n1*n2 + n1(n1+1)/2 - R with R the rank sum of group 1, and
\* 0 <= U <= n1*n2.
C23_Midranks ==
    UTestReturned =>
      LET c == args.x1 \o args.x2
          N == Len(c)
          n1 == args.n1
          n2 == args.n2
          sc == SomeView(c, GroupOf(n1, n2))[1]
          rank2 == ret.val.ranks2
          R2 == SumOver([j \in 1..n1 |-> MidRank2(c, args.x1[j])], 1..n1)
          U2 == 2 * n1 * n2 + n1 * (n1 + 1) - R2
      IN /\ \A j \in 1..N : rank2[j] = MidRank2(c, sc[j])
         /\ ret.val.tie_correction = TieTerm(c)
         /\ TieFree(args.x1, args.x2) => ret.val.tie_correction = 0
         /\ SumOver(rank2, 1..N) = N * (N + 1)
         /\ RankSum2(rank2, ret.val.sorted_group, N) = R2
         /\ ret.val.U = Frac(U2, 2)
         /\ 0 <= U2 /\ U2 <= 2 * n1 * n2

\* a block of three equal values shared by both samples, and a block of two
C23_Witness ==
    /\ UTestReturned
    /\ ret.val.tie_correction = 30
    /\ \E v \in UVals : /\ Cardinality(Tied(args.x1 \o args.x2, v)) = 3
                        /\ Tied(args.x1, v) # {}
                        /\ Tied(args.x2, v) # {}
                        /\ Below(args.x1 \o args.x2, v) # {}

(* ------------------ properties: the sign of z in u_test ---------------- *)
\* z > 0 and z < 0 on the doubles; both are false of nan
ZPos(z) == z.kind = "inf" \/ (z.kind = "finite" /\ z.num2 > 0)
ZNeg(z) == z.kind = "-inf" \/ (z.kind = "finite" /\ z.num2 < 0)

\* a == -b on the doubles: never true of nan
ZIsMinus(a, b) ==
    \/ a.kind = "finite" /\ b.kind = "finite" /\ a.num2 = -b.num2
         /\ a.v * b.d = b.v * a.d
    \/ a.kind = "inf" /\ b.kind = "-inf"
    \/ a.kind = "-inf" /\ b.kind = "inf"

\* twice the U returned
U2Of(val) == (2 * val.U.num) \div val.U.den

\* what u_test returns for the samples x1 and x2
UTestOf(x1, x2) ==
    u_test(Len(x1), x1, Len(x2), x2,
           CHOOSE v \in SortedViews(x1 \o x2, GroupOf(Len(x1), Len(x2))) : TRUE).val

AllAbove(x1, x2) == \A i \in 1..Len(x1), j \in 1..Len(x2) : x1[i] > x2[j]

\* z > 0 exactly when U < n1*n2/2, which is when the rank sum of group 1 is
\* above n1(N+1)/2
SignOfZ ==
    LET c == args.x1 \o args.x2
        R2 == SumOver([j \in 1..args.n1 |-> MidRank2(c, args.x1[j])], 1..args.n1)
    IN /\ ZPos(ret.val.z) <=> U2Of(ret.val) < args.n1 * args.n2
       /\ ZPos(ret.val.z) <=> R2 > args.n1 * (Len(c) + 1)

\* swapping the samples gives U' = n1*n2 - U
SwappedU == U2Of(UTestOf(args.x2, args.x1)) = 2 * args.n1 * args.n2 - U2Of(ret.val)

\* the two samples are kept apart: all of x1 above or all of it below x2
ExtremeSplit(proper) ==
    /\ (proper /\ AllAbove(args.x1, args.x2)) =>
         U2Of(ret.val) = 0 /\ ZPos(ret.val.z)
    /\ (proper /\ AllAbove(args.x2, args.x1)) =>
         U2Of(ret.val) = 2 * args.n1 * args.n2 /\ ZNeg(ret.val.z)

\* C24 as stated: z > 0 exactly when U < n1*n2/2; if every value of x1 is
\* above every value of x2 then U = 0 and z > 0, if every value is below
\* then U = n1*n2 and z < 0; swapping the samples gives U' = n1*n2 - U and
\* z' = -z.
C24_Original ==
    UTestReturned =>
      /\ SignOfZ
      /\ ExtremeSplit(TRUE)
      /\ SwappedU
      /\ ZIsMinus(UTestOf(args.x2, args.x1).z, ret.val.z)

\* C24 amended: the two extreme cases are for samples that both have a
\* member, and z' = -z whenever z is a number; z is nan, for both orders of
\* the samples, when a sample is empty or all values are equal.
C24_SignConvention ==
    UTestReturned =>
      /\ SignOfZ
      /\ ExtremeSplit(args.n1 >= 1 /\ args.n2 >= 1)
      /\ SwappedU
      /\ ret.val.z.kind \in {"finite", "nan"}
      /\ ret.val.z.kind = "finite" =>
           ZIsMinus(UTestOf(args.x2, args.x1).z, ret.val.z)
      /\ ret.val.z.kind = "nan" <=>
           \/ args.n1 = 0 \/ args.n2 = 0
           \/ \A i, j \in 1..(args.n1 + args.n2) :
                (args.x1 \o args.x2)[i] = (args.x1 \o args.x2)[j]
      /\ ret.val.z.kind = "nan" => UTestOf(args.x2, args.x1).z.kind = "nan"

\* samples of two and three with ties between them, x1 mostly above x2
C24_Witness ==
    /\ UTestReturned
    /\ args.n1 = 2 /\ args.n2 = 3
    /\ ~TieFree(args.x1, args.x2)
    /\ ZPos(ret.val.z)
    /\ 0 < U2Of(ret.val)
    /\ ZNeg(UTestOf(args.x2, args.x1).z)

(* ------------------ properties: the splits of the break test ----------- *)
BreakReturned == op = "compute_serial_correlated_break" /\ pc = "done"

\* the pairs of offset and nrecent the test evaluates for the arguments a:
\* offset in 0..lag, nrecent = min_recent, min_recent + lag, ... up to
\* max_recent, with n1 = ((nrecent - offset - 1) div lag) + 1, those with
\* n1 < 1 or ncases - n1 < 1 left out
BreakPairs(a) ==
    IF a.lag < 1 THEN {}
    ELSE LET all == {[offset |-> o, nrecent |-> nr,
                      n1 |-> ((nr - o - 1) \div a.lag) + 1] :
                        o \in 0..a.lag,
                        nr \in {x \in a.min_recent..a.max_recent :
                                  (x - a.min_recent) % a.lag = 0}}
         IN {p \in all : p.n1 >= 1 /\ a.ncases - p.n1 >= 1}

\* p is evaluated before q
PairBefore(p, q) ==
    p.offset < q.offset \/ (p.offset = q.offset /\ p.nrecent < q.nrecent)

\* |z| of u_test on the first n1 values against the remainder
PairCrit(a, p) ==
    AbsZ(UTestOf(SubSeq(a.values, 1, p.n1),
                 SubSeq(a.values, p.n1 + 1, a.ncases)).z)

CritEq(x, y) == CritGe(x, y) /\ CritGe(y, x)

\* the pairs among P whose statistic is max_crit
Attaining(a, P, max_crit) == {p \in P : CritEq(PairCrit(a, p), max_crit)}

\* the first of a non-empty set of pairs
FirstPair(P) == CHOOSE p \in P : \A q \in P : q = p \/ PairBefore(p, q)

\* the value returned is the largest statistic of the pairs P and the
\* nrecent of the first of them that attains it; (-inf, -1) without pairs
BreakOver(a, P, val) ==
    IF P = {} THEN val = [max_crit |-> NegInf, ibreak |-> -1]
    ELSE /\ Attaining(a, P, val.max_crit) # {}
         /\ \A q \in P : CritGe(val.max_crit, PairCrit(a, q))
         /\ val.ibreak = FirstPair(Attaining(a, P, val.max_crit)).nrecent

\* C25 as stated: the test evaluates u_test on exactly the splits of the
\* first n1 values against the remainder for the pairs above, and returns
\* the largest |z| over the evaluated splits with the nrecent of the first
\* pair that attains it, and (-inf, -1) when no pair is evaluated.
C25_Original == BreakReturned => BreakOver(args, BreakPairs(args), ret.val)

\* the evaluated pairs whose z is a number
NumericPairs(a) == {p \in BreakPairs(a) : PairCrit(a, p).kind # "nan"}

ConstantSeries(x) == \A i, j \in 1..Len(x) : x[i] = x[j]

\* C25 amended: the maximum and its first pair are taken over the evaluated
\* splits whose z is a number; z is nan for every split of a series whose
\* values are all equal and for no other, and the test then returns
\* (-inf, -1) as it does when no pair is evaluated.
C25_Splits ==
    BreakReturned =>
      /\ BreakOver(args, NumericPairs(args), ret.val)
      /\ NumericPairs(args) =
           (IF ConstantSeries(args.values) THEN {} ELSE BreakPairs(args))

\* two pairs of different nrecent attain the maximum, a third stays below,
\* and the nrecent of the earlier one is returned
C25_Witness ==
    /\ BreakReturned
    /\ args.lag = 2
    /\ \E p, q \in Attaining(args, BreakPairs(args), ret.val.max_crit) :
         /\ p.nrecent # q.nrecent
         /\ PairBefore(p, q)
         /\ ret.val.ibreak = p.nrecent
    /\ \E q \in BreakPairs(args) : CritGt(ret.val.max_crit, PairCrit(args, q))

(* ------------------ properties: the boundary the break test returns ---- *)
\* C26: the ibreak returned is the boundary, counted in observations from
\* the start of the series, at which the maximum statistic was observed: the
\* size n1 of the first segment of the split that produced max_crit, for
\* every lag >= 1 and every offset.
C26_Boundary ==
    (BreakReturned /\ ret.val.ibreak # -1) =>
      ret.val.ibreak =
        FirstPair(Attaining(args, NumericPairs(args), ret.val.max_crit)).n1

(* ------------------ properties: contingency counts --------------------- *)
ContCounting == op = "populate_contingency_matrix" /\ pc \in {"loop", "done"}

\* the sum of the counts c over the bins 0..(n - 1)
RECURSIVE Total(_, _)
Total(c, n) == IF n = 0 THEN 0 ELSE Total(c, n - 1) + c[n - 1]

\* after i samples the joint counts sum to i, every row of c_xy sums to the
\* count of its feature bin and every column to that of its target bin
CountsAgree ==
    ContCounting =>
      LET nf == args.nbins_feature
          nt == args.nbins_target
          c_xy == locals.c_xy
      IN /\ Total([f \in 0..(nf - 1) |-> Total(c_xy[f], nt)], nf) = locals.i
         /\ \A f \in 0..(nf - 1) : Total(c_xy[f], nt) = locals.c_feature[f]
         /\ \A t \in 0..(nt - 1) :
              Total([f \in 0..(nf - 1) |-> c_xy[f][t]], nf) = locals.c_target[t]
         /\ pc = "done" => /\ locals.i = Len(args.feature)
                           /\ ret.val.c_xy = c_xy
                           /\ ret.val.c_feature = locals.c_feature
                           /\ ret.val.c_target = locals.c_target

\* the bin of the value v of the series x among nbins bins is in range: the
\* last one for the maximum and for a constant series, bin 0 for the minimum
\* of any other
BinOf(idx, nbins, x, v) ==
    /\ 0 <= idx /\ idx <= nbins - 1
    /\ v = MaxOf(x) => idx = nbins - 1
    /\ (v = MinOf(x) /\ MinOf(x) # MaxOf(x)) => idx = 0

\* the sample just counted went to bins in range
SampleBinned ==
    (ContCounting /\ locals.i >= 1) =>
      /\ BinOf(locals.idx_feature, args.nbins_feature, args.feature,
               args.feature[locals.i])
      /\ BinOf(locals.idx_target, args.nbins_target, args.target,
               args.target[locals.i])

\* one pass counts one sample, once in each array, at its two bins
OneSampleCounted ==
    (ContCounting /\ ContCounting' /\ locals'.i # locals.i) =>
      LET f == locals'.idx_feature
          t == locals'.idx_target
      IN /\ locals'.i = locals.i + 1
         /\ locals'.c_feature = [locals.c_feature EXCEPT ![f] = @ + 1]
         /\ locals'.c_target = [locals.c_target EXCEPT ![t] = @ + 1]
         /\ locals'.c_xy = [locals.c_xy EXCEPT ![f][t] = @ + 1]

SumsAfter(s, wr, n, e) ==
    /\ s.win_above = WinOver(wr, (e + 1)..n)
    /\ s.lose_above = LoseOver(wr, (e + 1)..n)
    /\ s.lose_below = WinOver(wr, 1..e)
    /\ s.win_below = LoseOver(wr, 1..e)
    /\ s.win_above + s.lose_below = WinOver(wr, 1..n)
    /\ s.lose_above + s.win_below = LoseOver(wr, 1..n)
    /\ s.win_above >= 0 /\ s.lose_above >= 0
    /\ s.win_below >= 0 /\ s.lose_below >= 0

TrialCoupling ==
    (op = "opt_MCPT" /\ pc = "loop" /\ irep' = irep + 1) =>
      LET dl == long_count' - long_count
          ds == short_count' - short_count
          db == best_count' - best_count
      IN /\ {dl, ds, db} \subseteq {0, 1}
         /\ (dl = 1 /\ ds = 1) => db = 1
         /\ db = 1 => (dl = 1 \/ ds = 1)

\* after irep - 1 trials
CountsCoupled ==
    MCPTRunning =>
      LET l == long_count - 1
          s == short_count - 1
          b == best_count - 1
      IN /\ Max2(0, l + s - (irep - 1)) <= b
         /\ b <= l + s

\* l + s - o - b for four fractions, times the product of their denominators,
\* with part(p) for the numerator of p
GapOf(b, l, s, o, part(_)) ==
    LET D == b.den * l.den * s.den * o.den IN
    part(l) * (D \div l.den) + part(s) * (D \div s.den)
      - part(o) * (D \div o.den) - part(b) * (D \div b.den)

NumOf(p) == p.num

\* b <= l + s - o on the fractions
ExactLe(b, l, s, o) == GapOf(b, l, s, o, NumOf) >= 0

\* b <= l + s - o on the doubles the fractions stand for, taken as the real
\* numbers they are: the rounding of the quotients decides when the
\* fractions give equality
DoublesLe(b, l, s, o) ==
    \/ GapOf(b, l, s, o, NumOf) > 0
    \/ GapOf(b, l, s, o, NumOf) = 0 /\ GapOf(b, l, s, o, DoubleError) >= 0

MCPTPValues == MCPTReturned /\ args.nreps >= 1

\* C29 as stated: in every trial long and short both counted implies best
\* counted and best counted implies long or short counted; at every point
\* max(0, (longCount-1) + (shortCount-1) - trialsDone) <= bestCount-1 <=
\* (longCount-1) + (shortCount-1); and for nreps >= 1 the p-values returned
\* satisfy pval_best <= pval_long + pval_short - 1/nreps.
C29_Original ==
    /\ [][TrialCoupling]_vars
    /\ []CountsCoupled
    /\ [](MCPTPValues =>
            DoublesLe(ret.val.pval_best, ret.val.pval_long, ret.val.pval_short,
                      PVal(1, args.nreps)))

\* C29 amended: the coupling and the bounds on the counts hold as stated;
\* the inequality of the p-values holds for the exact quotients, and the
\* doubles returned break it only when best_count = long_count +
\* short_count - 1 and the three divisions round.
C29_Coupling ==
    /\ [][TrialCoupling]_vars
    /\ []CountsCoupled
    /\ [](MCPTPValues =>
            /\ ExactLe(ret.val.pval_best, ret.val.pval_long, ret.val.pval_short,
                       PVal(1, args.nreps))
            /\ best_count < long_count + short_count - 1 =>
                 DoublesLe(ret.val.pval_best, ret.val.pval_long,
                           ret.val.pval_short, PVal(1, args.nreps)))

\* two trials of which one raised long and best and the other short and best
C29_Witness ==
    /\ MCPTReturned
    /\ args.nreps = 3
    /\ long_count = 2 /\ short_count = 2 /\ best_count = 3

(* ------------------ properties: determinism of the pool reports -------- *)
\* the one way the function of a task ends on its arguments
TheOutcome(task) == CHOOSE r \in TaskOutcomes(task) : TRUE

\* a worker takes or ends a task while the starmap is out
WorkerStep ==
    PoolRunning /\ pc' = "pool" /\ ~AllReturned(results) /\ results' # results

\* a worker changes nothing but the slots of the pool: it draws nothing, it
\* leaves the arguments of every task and of the call alone, and what it
\* stores for a task is what the task's function returns on its arguments
WorkersDrawNothing ==
    WorkerStep =>
      /\ tasks' = tasks /\ args' = args /\ printed' = printed
      /\ locals' = [locals EXCEPT !.first_error = locals'.first_error]
      /\ \A k \in 1..Len(tasks) :
           results'[k] # results[k] =>
             \/ results[k].status = "pending" /\ results'[k].status = "running"
             \/ results[k].status = "running" /\ results'[k].status = "raised"
             \/ /\ results[k].status = "running"
                /\ results'[k] = Slot("ok", "none", <<TheOutcome(tasks[k]).val>>)

\* while a starmap is out every draw it depends on has been made: the tasks
\* of the break test report hold each indicator's series or a shuffle of
\* it, those of the mutual information report the shift amounts drawn
DrawnBeforeDispatch ==
    PoolRunning =>
      /\ op = "generate_mcmbt_report" =>
           /\ Len(tasks) = Len(args.data)
           /\ \A k \in 1..Len(tasks) :
                /\ tasks[k].values \in Shuffles(args.data[k])
                /\ locals.stage = "original" => tasks[k].values = args.data[k]
                /\ tasks[k].ncases = Len(args.data[k])
                /\ tasks[k].min_recent = args.min_recent
                /\ tasks[k].max_recent = args.max_recent
                /\ tasks[k].lag = args.lag
      /\ op = "generate_mi_report" =>
           /\ tasks = MiTasks(locals.target_permutations, args.features,
                              args.target, args.n_permutations)
           /\ \A t \in 1..args.target, p \in 1..args.n_permutations :
                locals.target_permutations[t][p] \in 0..(args.n - 1)

\* the row a trial adds holds what the break test returns on the series of
\* the trial's tasks
TrialRowDetermined ==
    TrialJoined =>
      locals'.permuted_max_crits[Len(locals'.permuted_max_crits)]
        = [k \in 1..Len(tasks) |-> TheOutcome(tasks[k]).val.max_crit]

\* when a starmap has just been dispatched, what each of its tasks returns
\* is fixed by the task's arguments
OneOutcomeAtDispatch ==
    (PoolRunning /\ \A k \in 1..Len(results) : results[k].val = <<>>
                                                /\ results[k].status # "raised") =>
      \A k \in 1..Len(tasks) : Cardinality(TaskOutcomes(tasks[k])) = 1

\* a finished report is fixed by the arguments of the call and the draws
ReportsDetermined ==
    /\ McmbtReported =>
         LET original == [k \in 1..Len(args.data) |->
                            TheOutcome(McmbtTasks(args.data, args.min_recent,
                                                  args.max_recent, args.lag)[k]).val]
             crits == [k \in 1..Len(args.data) |-> original[k].max_crit]
         IN /\ locals.original = original
            /\ printed = McmbtLines(original,
                            [idx \in 1..Len(args.data) |->
                                McmbtSolo(locals.permuted_max_crits, crits, idx)],
                            McmbtUnbiased(locals.permuted_max_crits, crits))
    /\ MiReported =>
         LET drawn == MiTasks(locals.target_permutations, args.features,
                              args.target, args.n_permutations)
         IN printed = MiLines([k \in 1..Len(drawn) |-> TheOutcome(drawn[k]).val],
                              MiOriginal(args.scores, args.features, args.target),
                              args.features, args.target, args.n_permutations)

\* C30: in generate_mcmbt_report and generate_mi_report every random draw
\* (the shuffles of the indicators, the cyclic shift amounts) is made by the
\* dispatching process before the tasks go to the pool; the worker functions
\* draw nothing and touch nothing but their own result, which is fixed by
\* the arguments of the task; so the statistics and p-values of a run are
\* fixed by the arguments of the call and the draws, whatever the number of
\* workers and the order in which they end.
C30_Determinism ==
    /\ [](OneOutcomeAtDispatch /\ DrawnBeforeDispatch /\ ReportsDetermined)
    /\ [][WorkersDrawNothing /\ TrialRowDetermined]_vars

\* a break test report of two indicators and two trials whose shuffles gave
\* different statistics
C30_Witness ==
    /\ McmbtReported
    /\ Len(args.data) = 2
    /\ Len(locals.permuted_max_crits) = 2
    /\ locals.permuted_max_crits[1] # locals.permuted_max_crits[2]
    /\ \E k \in 1..2 : tasks[k].values # args.data[k]
====
